---- MODULE Spec2Model ----
(***************************************************************************)
(* Signal-to-order reconciliation engine of tradingalerts:                 *)
(*   webhook (app.py) -> is_duplicate (redis_utils.py)                     *)
(*   -> process_account_optimized (performance_optimizations.py)           *)
(*   -> place_order (orders.py) -> OrderDatabase (database.py).            *)
(* Every webhook request is a process; every redis, broker and ledger      *)
(* operation it performs is a step whose outcome is chosen by the          *)
(* environment.                                                            *)
(***************************************************************************)
EXTENDS Integers, Sequences, FiniteSets, TLC

(***************************************************************************)
(* Bounds of the model.                                                    *)
(***************************************************************************)
\* largest quantity a payload asks for
MaxQuantity == 2
\* largest absolute quantity the broker reports in one position or holding
MaxHeld == 1

\* number of webhook requests that may be in flight at once
NumReqs == 2
\* rows the orders table holds at most when the P&L of a symbol is asked for
MaxRows == 4

Reqs == 1..NumReqs

(***************************************************************************)
(* Program constants.                                                      *)
(***************************************************************************)
\* redis_utils.is_duplicate(symbol, timestamp, max_retries: int = 3)
max_retries == 3

None == "None"

\* a row id that is None (like 0, it is falsy in "if order_log_id:")
NoId == 0

(***************************************************************************)
(* Strings the code inspects character by character are sequences of       *)
(* one-character strings.                                                  *)
(***************************************************************************)
SBIN == <<"S", "B">>
NF1 == <<"N", "F", "1", "!">>
CR1 == <<"c", "r", "1", "!">>

\* str.upper() on the characters that occur in symbols
Upper(c) ==
  CASE c = "c" -> "C"
    [] c = "r" -> "R"
    [] OTHER -> c

UpperStr(s) == [i \in 1..Len(s) |-> Upper(s[i])]

EndsWith(s, chars) == Len(s) > 0 /\ s[Len(s)] \in chars

DropLast(s) == SubSeq(s, 1, Len(s) - 1)

\* signal timestamps (payload.time); <<>> is the absent time
T1 == <<"12", ":", "00">>
T2 == <<"12", ":", "05">>
Times == {T1, T2}
NoTime == <<>>

\* the (symbol, segment) combinations signals arrive with
Instruments == {<<SBIN, "NSE">>, <<NF1, "NFO">>, <<CR1, "MCX">>}

\* payload.quantity is a float with default 0.0
Quantities == {0, MaxQuantity}

Actions == {"buy", "sell", "hold"}

\* payload.price
Prices == {100}

\* WebhookPayload as validated by pydantic.  The cash symbol comes with every
\* quantity; futures signals, whose quantity the handler overrides, signals
\* with an invalid action and signals of the second time come with one
\* quantity each.
Payloads ==
  {[action |-> a, symbol |-> i[1], segment |-> i[2], price |-> p,
    time |-> t, quantity |-> q] :
      a \in Actions, i \in Instruments, p \in Prices,
      t \in Times \cup {NoTime}, q \in Quantities}
  \ {p \in [action : Actions, symbol : {SBIN, NF1, CR1},
             segment : {"NSE", "NFO", "MCX"}, price : Prices,
             time : Times \cup {NoTime}, quantity : Quantities] :
        \/ p.segment # "NSE" /\ p.quantity # MaxQuantity
        \/ p.action = "hold" /\ (p.symbol # SBIN \/ p.quantity # 0)
        \/ p.time = T2 /\ (p.symbol # SBIN \/ p.quantity # 0
                           \/ p.action = "hold")
        \/ p.time = NoTime /\ (p.symbol # SBIN \/ p.quantity # 0
                               \/ p.action # "buy")}

NoPayload == [action |-> None, symbol |-> <<>>, segment |-> None, price |-> 0,
              time |-> NoTime, quantity |-> 0]

\* a key that leaves the signal time out
IdempotencyKeySymbolOnly(symbol, timestamp) ==
  <<"idempotency", ":">> \o symbol

\* key = f"idempotency:{symbol}:{timestamp}"
IdempotencyKey(symbol, timestamp) ==
  <<"idempotency", ":">> \o symbol \o <<":">> \o timestamp

(***************************************************************************)
(* Instruments of the broker.  A date is a day number counted from         *)
(* 1970-01-01 (all dates lie in January 1970, so that epoch milliseconds   *)
(* stay small); the broker SDK delivers expiry as a date, the instrument   *)
(* cache (DataFrame.to_json / read_json) delivers it as epoch              *)
(* milliseconds.                                                           *)
(***************************************************************************)
MsPerDay == 86400000

Date(d) == [kind |-> "date", v |-> d]

NF_A == <<"N", "F", "A">>
NF_B == <<"N", "F", "B">>
NF_C == <<"N", "F", "C">>
NF_D == <<"N", "F", "D">>
NF_CE == <<"N", "F", "C", "E">>
BN_A == <<"B", "N", "A">>
CR_A == <<"C", "R", "A">>
CR_B == <<"C", "R", "B">>

Instr(ts, type, name, expiry, lot) ==
  [tradingsymbol |-> ts, instrument_type |-> type, name |-> name,
   expiry |-> Date(expiry), lot_size |-> lot]

I_NF_A == Instr(NF_A, "FUT", <<"N", "F">>, 8, 2)
I_NF_B == Instr(NF_B, "FUT", <<"N", "F">>, 15, 3)
I_NF_C == Instr(NF_C, "FUT", <<"N", "F">>, 22, 2)
I_NF_D == Instr(NF_D, "FUT", <<"N", "F">>, 24, 2)
I_NF_CE == Instr(NF_CE, "CE", <<"N", "F">>, 8, 2)
I_BN_A == Instr(BN_A, "FUT", <<"B", "N">>, 8, 1)
I_CR_A == Instr(CR_A, "FUT", <<"C", "R">>, 8, 4)
I_CR_B == Instr(CR_B, "FUT", <<"C", "R">>, 15, 4)

\* what kite.instruments(exchange=...) may return
InstrumentLists(exchange) ==
  CASE exchange = "NFO" ->
         {<<I_NF_CE, I_BN_A>>,
          <<I_NF_CE, I_NF_A>>,
          <<I_NF_D, I_NF_B, I_NF_A, I_NF_CE, I_NF_C>>}
    [] exchange = "MCX" -> {<<I_CR_B, I_CR_A>>}
    [] OTHER -> {<<>>}

\* today's date as datetime.now().date() may read it:
\* Thursday, Friday, Sunday and Tuesday before the front expiry (day 8)
Days == {0, 1, 3, 5}

\* date.weekday(): Monday is 0; 1970-01-01 was a Thursday
Weekday(d) == (d + 3) % 7

\* DataFrame.to_json followed by read_json, on one instrument row
JsonRoundTrip(i) ==
  [i EXCEPT !.expiry = [kind |-> "int", v |-> i.expiry.v * MsPerDay]]

\* the order sort_values('expiry') sorts by
ExpiryKey(e) == IF e.kind = "int" THEN e.v ELSE e.v * MsPerDay

RECURSIVE SortByExpiry(_)
SortByExpiry(rows) ==
  IF rows = <<>> THEN <<>>
  ELSE LET m == CHOOSE i \in 1..Len(rows) :
                  \A j \in 1..Len(rows) :
                     \/ ExpiryKey(rows[i].expiry) < ExpiryKey(rows[j].expiry)
                     \/ (ExpiryKey(rows[i].expiry) = ExpiryKey(rows[j].expiry)
                         /\ i <= j)
       IN <<rows[m]>> \o
          SortByExpiry(SubSeq(rows, 1, m - 1) \o SubSeq(rows, m + 1, Len(rows)))

RECURSIVE SelectSeq2(_, _, _)
\* df[(df['instrument_type'] == 'FUT') & (df['name'] == symbol.upper())]
SelectSeq2(rows, type, name) ==
  IF rows = <<>> THEN <<>>
  ELSE (IF rows[1].instrument_type = type /\ rows[1].name = name
          THEN <<rows[1]>> ELSE <<>>)
       \o SelectSeq2(Tail(rows), type, name)

Head3(rows) == SubSeq(rows, 1, IF Len(rows) < 3 THEN Len(rows) ELSE 3)

\* symbol normalisation of get_top_3_futures_from_tv_symbol
NormalizeSymbol(tv_symbol) ==
  LET symbol == IF EndsWith(tv_symbol, {"!"}) THEN DropLast(tv_symbol)
                ELSE tv_symbol
  IN IF EndsWith(symbol, {"1", "2", "3"}) THEN DropLast(symbol) ELSE symbol

\* the contracts get_top_3_futures_from_tv_symbol builds from the DataFrame
ContractsFromDf(df, tv_symbol) ==
  LET fut_df == SelectSeq2(df, "FUT", UpperStr(NormalizeSymbol(tv_symbol)))
      fut_df_sorted == Head3(SortByExpiry(fut_df))
  IN [i \in 1..Len(fut_df_sorted) |->
        [tradingsymbol |-> fut_df_sorted[i].tradingsymbol,
         expiry |-> fut_df_sorted[i].expiry,
         lot_size |-> fut_df_sorted[i].lot_size]]

(***************************************************************************)
(* Broker views read by get_positions_and_holdings_direct.                 *)
(***************************************************************************)
\* the outcome of a broker call: the rows it returned, or the exception
\* (asyncio.TimeoutError or another one) it ended with
Returned(rows) == [exc |-> None, rows |-> rows]

Raised(exc) == [exc |-> exc, rows |-> <<>>]

ReadFailures == {Raised("TimeoutError"), Raised("Exception")}

OtherSymbol == <<"X">>

OtherExchange(segment) == IF segment = "NSE" THEN "BSE" ELSE "NSE"

NetRecs(ts, segment) ==
  [tradingsymbol : {ts, OtherSymbol}, exchange : {segment, OtherExchange(segment)},
   quantity : (0 - MaxHeld)..MaxHeld]

\* what kite.positions()["net"] may return
PositionsResponses(ts, segment) ==
  {Returned(rows) : rows \in
     {<<>>} \cup {<<p>> : p \in NetRecs(ts, segment)}
     \cup {<<p, [tradingsymbol |-> ts, exchange |-> segment, quantity |-> MaxHeld]>> :
             p \in NetRecs(ts, segment)}}

HoldingRecs(ts) ==
  [tradingsymbol : {ts, OtherSymbol}, quantity : 0..MaxHeld]
  \cup [tradingsymbol : {ts, OtherSymbol}, quantity : 0..MaxHeld,
        t1_quantity : 0..MaxHeld]

\* what kite.holdings() may return
HoldingsResponses(ts) ==
  {Returned(rows) : rows \in
     {<<>>} \cup {<<h>> : h \in HoldingRecs(ts)}
     \cup {<<h, [tradingsymbol |-> ts, quantity |-> MaxHeld]>> :
             h \in HoldingRecs(ts)}}


\* next((p for p in positions if p["tradingsymbol"] == tradingsymbol and
\* p["exchange"] == segment), None), as the index of the first match or 0
FirstPosition(rows, tradingsymbol, segment) ==
  LET matches == {i \in 1..Len(rows) : /\ rows[i].tradingsymbol = tradingsymbol
                                        /\ rows[i].exchange = segment}
  IN IF matches = {} THEN 0
     ELSE CHOOSE i \in matches : \A j \in matches : i <= j

\* next((h for h in holdings if h["tradingsymbol"] == tradingsymbol), None),
\* as the index of the first match or 0
FirstHolding(rows, tradingsymbol) ==
  LET matches == {i \in 1..Len(rows) : rows[i].tradingsymbol = tradingsymbol}
  IN IF matches = {} THEN 0
     ELSE CHOOSE i \in matches : \A j \in matches : i <= j

\* get_positions_and_holdings_direct: the signed quantity it returns.
\* holdings and positions are the outcomes of the two broker calls.
QtyHeldDirect(segment, tradingsymbol, holdings, positions) ==
  IF segment \in {"NFO", "MCX"}
    THEN IF positions.exc # None THEN 0
         ELSE LET i == FirstPosition(positions.rows, tradingsymbol, segment)
              IN IF i = 0 THEN 0 ELSE positions.rows[i].quantity
  ELSE IF segment = "NSE"
    THEN IF holdings.exc # None \/ positions.exc # None THEN 0
         ELSE LET i == FirstHolding(holdings.rows, tradingsymbol)
                  j == FirstPosition(positions.rows, tradingsymbol, segment)
                  qty_h == IF i = 0 THEN 0 ELSE holdings.rows[i].quantity
                  qty_t1 == IF i # 0 /\ "t1_quantity" \in DOMAIN holdings.rows[i]
                              THEN holdings.rows[i].t1_quantity ELSE 0
                  qty_positions == IF j = 0 THEN 0
                                   ELSE positions.rows[j].quantity
              IN qty_h + qty_t1 + qty_positions
  ELSE 0

\* the second component of the result, existing_position or {}: the
\* matching net position as a one-element sequence, or <<>> for {}
RawPositionDirect(segment, tradingsymbol, holdings, positions) ==
  IF segment \notin {"NFO", "MCX", "NSE"} THEN <<>>
  ELSE IF positions.exc # None THEN <<>>
  ELSE IF segment = "NSE" /\ holdings.exc # None THEN <<>>
  ELSE LET j == FirstPosition(positions.rows, tradingsymbol, segment)
       IN IF j = 0 THEN <<>> ELSE <<positions.rows[j]>>

\* how the two legs of the last read ended
ReadExc(holdings, positions) == <<holdings.exc, positions.exc>>

\* when exactly one leg of the cash read did not return, the quantity the
\* leg that returned reports by itself (quantity + t1_quantity of the
\* holding, or the net quantity of the position); 0 in every other case
SurvivorQty(segment, tradingsymbol, holdings, positions) ==
  IF segment # "NSE" THEN 0
  ELSE IF holdings.exc # None /\ positions.exc = None
    THEN QtyHeldDirect(segment, tradingsymbol, Returned(<<>>), positions)
  ELSE IF holdings.exc = None /\ positions.exc # None
    THEN QtyHeldDirect(segment, tradingsymbol, holdings, Returned(<<>>))
  ELSE 0

(***************************************************************************)
(* Broker rejections of kite.place_order, as sequences of words.           *)
(***************************************************************************)
ErrIlliquidEtf == <<"Market", "orders", "are", "blocked", "for", "illiquid", "ETFs">>
ErrProtection == <<"Market", "protection", "required">>
ErrFunds == <<"Insufficient", "funds">>

PlaceOrderErrors == {ErrIlliquidEtf, ErrProtection, ErrFunds}

\* the outcome of a kite.place_order call that returned an order id
Placed == <<>>

\* str.lower() on the words that occur in rejections
LowerWord(w) ==
  CASE w = "Market" -> "market"
    [] w = "ETFs" -> "etfs"
    [] w = "Insufficient" -> "insufficient"
    [] OTHER -> w

LowerStr(s) == [i \in 1..Len(s) |-> LowerWord(s[i])]

\* sub in s, on sequences of words
Contains(s, sub) ==
  \E i \in 0..(Len(s) - Len(sub)) : SubSeq(s, i + 1, i + Len(sub)) = sub

\* a test that takes every rejection for an illiquid-ETF rejection
IsIlliquidErrorAny(market_order_error) == Len(market_order_error) > 0

\* the illiquid-ETF test of place_order
IsIlliquidError(market_order_error) ==
  LET error_message == LowerStr(market_order_error)
  IN \/ Contains(error_message,
                 <<"market", "orders", "are", "blocked", "for", "illiquid", "etfs">>)
     \/ Contains(error_message, <<"market", "protection">>)
     \/ Contains(error_message, <<"illiquid">>)

\* statuses check_existing_pending_orders treats as pending
pending_statuses ==
  {"OPEN", "TRIGGER PENDING", "PENDING", "AMO REQ RECEIVED", "MODIFY PENDING",
   "CANCEL PENDING"}

\* what kite.orders() may return: at most two orders around the one asked for
OrderRecs(ts, segment) ==
  [tradingsymbol : {ts, OtherSymbol}, exchange : {segment, OtherExchange(segment)},
   transaction_type : {"BUY", "SELL"},
   status : {"OPEN", "AMO REQ RECEIVED", "COMPLETE", "REJECTED"}]

OrdersResponses(ts, segment) ==
  {Returned(rows) : rows \in
     {<<>>} \cup {<<o>> : o \in OrderRecs(ts, segment)}
     \cup {<<[tradingsymbol |-> OtherSymbol, exchange |-> segment,
              transaction_type |-> "BUY", status |-> "OPEN"], o>> :
             o \in OrderRecs(ts, segment)}}

\* the statuses of the orders in the broker's answer that have the
\* tradingsymbol, exchange and transaction type place_order was called for
SameKeyStatuses(orders_response, tradingsymbol, action, segment) ==
  IF orders_response.exc # None THEN {}
  ELSE {orders_response.rows[i].status : i \in
          {j \in 1..Len(orders_response.rows) :
             /\ orders_response.rows[j].tradingsymbol = tradingsymbol
             /\ orders_response.rows[j].exchange = segment
             /\ orders_response.rows[j].transaction_type
                  = (IF action = "buy" THEN "BUY" ELSE "SELL")}}

\* a check that looks for OPEN orders only
HasDuplicatePendingOpenOnly(orders_response, tradingsymbol, action, segment) ==
  /\ orders_response.exc = None
  /\ \E i \in 1..Len(orders_response.rows) :
       /\ orders_response.rows[i].tradingsymbol = tradingsymbol
       /\ orders_response.rows[i].exchange = segment
       /\ orders_response.rows[i].transaction_type
            = (IF action = "buy" THEN "BUY" ELSE "SELL")
       /\ orders_response.rows[i].status = "OPEN"

\* a check that reports a duplicate when the broker's order book cannot be read
HasDuplicatePendingFailClosed(orders_response, tradingsymbol, action, segment) ==
  \/ orders_response.exc # None
  \/ \E i \in 1..Len(orders_response.rows) :
       /\ orders_response.rows[i].tradingsymbol = tradingsymbol
       /\ orders_response.rows[i].exchange = segment
       /\ orders_response.rows[i].transaction_type
            = (IF action = "buy" THEN "BUY" ELSE "SELL")
       /\ orders_response.rows[i].status \in pending_statuses

\* check_existing_pending_orders: has_duplicate
HasDuplicatePending(orders_response, tradingsymbol, action, segment) ==
  IF orders_response.exc # None THEN FALSE
  ELSE LET target_transaction_type == IF action = "buy" THEN "BUY" ELSE "SELL"
       IN \E i \in 1..Len(orders_response.rows) :
            /\ orders_response.rows[i].tradingsymbol = tradingsymbol
            /\ orders_response.rows[i].exchange = segment
            /\ orders_response.rows[i].transaction_type = target_transaction_type
            /\ orders_response.rows[i].status \in pending_statuses

\* check_existing_pending_orders: the second element of its answer, the
\* text of the exception when kite.orders raised
ErrorCheckingOrders == "Error checking orders"

OrderDetails(orders_response, tradingsymbol, action, segment) ==
  IF orders_response.exc # None THEN ErrorCheckingOrders
  ELSE IF SameKeyStatuses(orders_response, tradingsymbol, action, segment)
            \cap pending_statuses # {}
    THEN "Order ID"
  ELSE None

(***************************************************************************)
(* OrderDatabase (database.py): the orders table as a sequence of rows,    *)
(* the autoincrement id of a row being its index.                          *)
(***************************************************************************)
\* an insert that hands out a row id but is never committed
LogOrderAttemptNotCommitted(rows, tradingsymbol, exchange, transaction_type, quantity, price, order_type, product, db_ok) ==
  [rows |-> rows, order_log_id |-> IF db_ok THEN Len(rows) + 1 ELSE NoId]

\* an insert that returns the number of rows inserted, cursor.rowcount, for
\* cursor.lastrowid
LogOrderAttemptRowCount(rows, tradingsymbol, exchange, transaction_type, quantity, price, order_type, product, db_ok) ==
  IF db_ok
    THEN [rows |-> Append(rows,
                     [id |-> Len(rows) + 1, order_id |-> None,
                      tradingsymbol |-> tradingsymbol, exchange |-> exchange,
                      transaction_type |-> transaction_type,
                      quantity |-> quantity, price |-> price,
                      order_type |-> order_type, product |-> product,
                      status |-> "ATTEMPTING", error_message |-> None]),
          order_log_id |-> 1]
    ELSE [rows |-> rows, order_log_id |-> NoId]

\* log_order_attempt: returns the new table and cursor.lastrowid, or the
\* unchanged table and None when the insert raises
LogOrderAttempt(rows, tradingsymbol, exchange, transaction_type, quantity, price, order_type, product, db_ok) ==
  IF db_ok
    THEN [rows |-> Append(rows,
                     [id |-> Len(rows) + 1, order_id |-> None,
                      tradingsymbol |-> tradingsymbol, exchange |-> exchange,
                      transaction_type |-> transaction_type,
                      quantity |-> quantity, price |-> price,
                      order_type |-> order_type, product |-> product,
                      status |-> "ATTEMPTING", error_message |-> None]),
          order_log_id |-> Len(rows) + 1]
    ELSE [rows |-> rows, order_log_id |-> NoId]

\* an update that sets the status and the error but not the order id
UpdateOrderResultNoOrderId(rows, order_log_id, order_id, status, error_message, db_ok) ==
  IF db_ok /\ order_log_id \in 1..Len(rows)
    THEN [rows EXCEPT ![order_log_id] =
            [@ EXCEPT !.status = status, !.error_message = error_message]]
    ELSE rows

\* update_order_result: UPDATE orders SET ... WHERE id = order_log_id;
\* an exception is logged and swallowed
UpdateOrderResult(rows, order_log_id, order_id, status, error_message, db_ok) ==
  IF db_ok /\ order_log_id \in 1..Len(rows)
    THEN [rows EXCEPT ![order_log_id] =
            [@ EXCEPT !.order_id = order_id, !.status = status,
                      !.error_message = error_message]]
    ELSE rows

(***************************************************************************)
(* place_order (orders.py): its signature and the parameters it derives.   *)
(***************************************************************************)
\* positional parameters of place_order
PlaceOrderParams ==
  <<"kite", "tradingsymbol", "action", "price", "segment", "quantity",
    "webhook_timestamp", "tv_symbol", "request_id">>

\* a place_order that would take any number of positional arguments
CallNeverRaises(args) == FALSE

\* calling place_order(*args): a call with more positional arguments than
\* parameters raises TypeError before the body runs
CallRaisesTypeError(args) == Len(args) > Len(PlaceOrderParams)

\* product_type written to the ledger (STEP 1)
LedgerProduct(segment) ==
  IF segment = "NFO" THEN "NRML" ELSE IF segment = "NSE" THEN "CNC" ELSE "NRML"

\* "product" of order_params (STEP 4)
BrokerProduct(segment) == IF segment = "NFO" THEN "NRML" ELSE "CNC"

TransactionType(action) == IF action = "buy" THEN "BUY" ELSE "SELL"

(***************************************************************************)
(* protected_price = ltp * (1 +/- buffer_multiplier) in IEEE double        *)
(* arithmetic, round to nearest.  A double is described by the decimal it  *)
(* stands for (in thousandths) and its distance from that decimal.         *)
(***************************************************************************)
RECURSIVE Pow2(_)
Pow2(n) == IF n = 0 THEN 1 ELSE 2 * Pow2(n - 1)

RECURSIVE PowMod2(_, _)
\* 2^n modulo m
PowMod2(n, m) == IF n = 0 THEN 1 % m ELSE (2 * PowMod2(n - 1, m)) % m

\* the decimal n/1000 on the grid of spacing 2^(-k): n * 2^k / 1000 modulo 2,
\* in thousandths of the spacing
GridPosition(n, k) == ((n % 2000) * PowMod2(k, 2000)) % 2000

\* the position of the decimal n/1000 between two neighbours of the grid of
\* spacing 2^(-k), in thousandths of the spacing
GridFraction(n, k) == GridPosition(n, k) % 1000

\* buffer_multiplier = 0.005 lies in [2^-8, 2^-7), where doubles are spaced
\* 2^-60: the distance of the double from 0.005, in thousandths of 2^-60
BufferErr ==
  LET f == GridFraction(5, 60) IN IF f < 500 THEN 0 - f ELSE 1000 - f

\* the distance of the double (1 + buffer_multiplier) from 1.005, or of
\* (1 - buffer_multiplier) from 0.995, in thousandths of 2^-53.  Doubles in
\* [1, 2) are spaced 2^-52, doubles in [1/2, 1) are spaced 2^-53.
FactorErr(action) ==
  IF action = "buy"
    THEN LET f == GridFraction(1005, 52)
         IN IF 2 * (f * 256 + BufferErr) < 256000 THEN 2 * (0 - f)
            ELSE 2 * (1000 - f)
    ELSE LET f == GridFraction(995, 53)
         IN IF 2 * (f * 128 - BufferErr) < 128000 THEN 0 - f ELSE 1000 - f

\* protected_price: the decimal ltp * 1.005 or ltp * 0.995 in thousandths,
\* and the distance off/den of the double from it, in spacings of the
\* doubles around it
ProtectedPrice(price, action) ==
  LET ideal == IF action = "buy" THEN price * 1005 ELSE price * 995
      k == CHOOSE j \in 0..20 :
             /\ Pow2(j) * 1000 > ideal
             /\ j > 0 => Pow2(j - 1) * 1000 <= ideal
      den == 1000 * Pow2(k)
      f == GridFraction(ideal, 53 - k)
      odd == GridPosition(ideal, 53 - k) \div 1000
      pos == f * Pow2(k) + price * FactorErr(action)
      upper == (2 * pos + den) \div (2 * den)
      tie == (2 * pos + den) % (2 * den) = 0
      \* round to nearest, ties to the even neighbour
      nearest == IF tie /\ (odd + upper) % 2 = 1 THEN upper - 1 ELSE upper
  IN IF price = 0 THEN [thousandths |-> 0, off |-> 0, den |-> 1]
     ELSE [thousandths |-> ideal, off |-> nearest * den - f * Pow2(k),
           den |-> den]

(***************************************************************************)
(* Faulty variants of the decision, each with one branch changed.          *)
(***************************************************************************)
\* buys on top of a long position and sells on top of a short one
ReconcileNoSkip(action, segment, qty_held, price, tradingsymbol, total_quantity, webhook_timestamp, tv_symbol, request_id) ==
  LET Args(quantity) ==
        <<"kite", tradingsymbol, action, price, segment, quantity,
          webhook_timestamp, tv_symbol, request_id>>
  IN IF action \in {"buy", "sell"}
       THEN [kind |-> "call", branch |-> action, args |-> Args(total_quantity)]
     ELSE [kind |-> "skip", status |-> "unknown error"]

\* opens a long position with one unit whatever quantity was asked for
ReconcileUnitBuy(action, segment, qty_held, price, tradingsymbol, total_quantity, webhook_timestamp, tv_symbol, request_id) ==
  LET Args(quantity) ==
        <<"kite", tradingsymbol, action, price, segment, quantity,
          webhook_timestamp, tv_symbol, request_id>>
  IN IF action = "buy"
       THEN IF qty_held > 0
              THEN [kind |-> "skip", status |-> "already holding, buy skipped"]
            ELSE [kind |-> "call", branch |-> "buy", args |-> Args(1)]
     ELSE IF action = "sell"
       THEN IF qty_held < 0
              THEN [kind |-> "skip", status |-> "already short, sell skipped"]
            ELSE [kind |-> "call", branch |-> "sell", args |-> Args(qty_held)]
     ELSE [kind |-> "skip", status |-> "unknown error"]

\* closes a long position with the quantity the signal asked for
ReconcileSellRequested(action, segment, qty_held, price, tradingsymbol, total_quantity, webhook_timestamp, tv_symbol, request_id) ==
  LET Args(quantity) ==
        <<"kite", tradingsymbol, action, price, segment, quantity,
          webhook_timestamp, tv_symbol, request_id>>
  IN IF action = "buy"
       THEN IF qty_held > 0
              THEN [kind |-> "skip", status |-> "already holding, buy skipped"]
            ELSE [kind |-> "call", branch |-> "buy", args |-> Args(total_quantity)]
     ELSE IF action = "sell"
       THEN IF qty_held < 0
              THEN [kind |-> "skip", status |-> "already short, sell skipped"]
            ELSE [kind |-> "call", branch |-> "sell", args |-> Args(total_quantity)]
     ELSE [kind |-> "skip", status |-> "unknown error"]

(***************************************************************************)
(* process_account_optimized, Step 2: the decision on the position state.  *)
(***************************************************************************)
Reconcile(action, segment, qty_held, price, tradingsymbol, total_quantity, webhook_timestamp, tv_symbol, request_id) ==
  LET product_override == IF segment = "NSE" THEN "MIS" ELSE None
      Args(quantity) ==
        <<"kite", tradingsymbol, action, price, segment, quantity,
          webhook_timestamp, tv_symbol, request_id>>
  IN IF action = "buy"
       THEN IF qty_held > 0
              THEN [kind |-> "skip", status |-> "already holding, buy skipped"]
            ELSE IF qty_held < 0
              THEN [kind |-> "call", branch |-> "cover",
                    args |-> Args(0 - qty_held) \o <<product_override>>]
            ELSE [kind |-> "call", branch |-> "buy",
                  args |-> Args(total_quantity)]
     ELSE IF action = "sell"
       THEN IF qty_held < 0
              THEN [kind |-> "skip", status |-> "already short, sell skipped"]
            ELSE IF qty_held > 0
              THEN [kind |-> "call", branch |-> "sell", args |-> Args(qty_held)]
            ELSE [kind |-> "call", branch |-> "short",
                  args |-> Args(total_quantity) \o <<product_override>>]
     ELSE [kind |-> "skip", status |-> "unknown error"]

\* the status process_account_optimized reports after place_order returned
StatusAfterOrder(branch, order_id) ==
  IF order_id # None
    THEN CASE branch = "cover" -> "cover order placed"
           [] branch = "buy" -> "buy order placed"
           [] branch = "sell" -> "sell order placed"
           [] branch = "short" -> "short order placed"
    ELSE IF branch \in {"cover", "buy"} THEN "buy order failed"
         ELSE "sell order failed"

\* the selection without the rollover rule: always the front contract
SelectFrontContract(contracts, today) == contracts[1]

\* the rollover-aware choice of the entry contract when flat
SelectContract(contracts, today) ==
  LET expiry == contracts[1].expiry
      expiry_date == IF expiry.kind = "int"
                       THEN (expiry.v \div 1000) \div 86400
                       ELSE expiry.v
      days_left == expiry_date - today
  IN IF days_left <= 7 /\ Weekday(today) < 5 /\ Len(contracts) > 1
       THEN contracts[2] ELSE contracts[1]

VARIABLES
  pc,              \* position of each webhook request in its handler
  payload,         \* the validated payload of each request
  redis_keys,      \* idempotency keys currently set in redis
  attempt,         \* loop variable of is_duplicate in each request
  is_dup,          \* what is_duplicate returned to each request
  fail_open,       \* requests is_duplicate admitted without setting the key
  expired,         \* idempotency keys that have expired at least once
  FORWARD_TESTING_MODE,  \* orders.FORWARD_TESTING_MODE, fixed at start-up
  instrument_cache,      \* redis instrument_cache:{segment}
  contract_cache,        \* perf_optimizer.contract_cache
  acct,            \* locals of process_account_optimized in each request
  po,              \* locals of place_order in each request
  orders,          \* the orders table of the ledger
  events,          \* the ledger and broker operations each request performed
  result,          \* the account result each request responded with
  ledger,          \* the orders table as the P&L queries read it
  pnl,             \* the last answer of calculate_symbol_pnl
  resolved,        \* the last call of get_top_3_futures_from_tv_symbol
  rollover,        \* the last run of the rollover scheduler
  scheduler,       \* the position and the clock readings of rollover_check
  fifo             \* locals of _calculate_fifo_pnl in its last call

gateVars == <<redis_keys, attempt, is_dup, fail_open, expired>>
cacheVars == <<instrument_cache, contract_cache>>
orderVars == <<po, orders, events>>
pnlVars == <<ledger, pnl, fifo>>
schedVars == <<resolved, rollover, scheduler>>

vars == <<pc, payload, redis_keys, attempt, is_dup, fail_open, expired,
          FORWARD_TESTING_MODE, instrument_cache, contract_cache, acct, po,
          orders, events, result, ledger, pnl, resolved, rollover, scheduler,
          fifo>>

Segments == {"NSE", "NFO", "MCX"}

EmptyCache == [k \in {} |-> <<>>]

\* a redis key that is not set
NoEntry == [set |-> FALSE, df |-> <<>>]

NoAcct == [quantity |-> 0, contracts |-> <<>>, idx |-> 0, qty_held |-> 0,
           tradingsymbol |-> <<>>, lot_size |-> 1, total_quantity |-> 0,
           branch |-> None, today |-> 0,
           read_exc |-> <<None, None>>, survivor_qty |-> 0, scanned |-> <<>>,
           cleared |-> 0, contract_hit |-> FALSE, resolutions |-> 0]

NoPo == [tradingsymbol |-> <<>>, action |-> None, price |-> 0, segment |-> None,
         quantity |-> 0, order_log_id |-> NoId, market_order_error |-> <<>>,
         order_details |-> None, ret |-> <<None, None>>]

Ev(op, a) == [op |-> op, a |-> a]

\* calculate_symbol_pnl has not been called
NoReport == [tradingsymbol |-> None, exchange |-> None]

\* _calculate_fifo_pnl has not been called
NoFifo ==
  [pc |-> "idle", buy_queue |-> <<>>, sell_queue |-> <<>>, buy_idx |-> 0,
   sell_idx |-> 0, remaining_buy_qty |-> 0, realized_pnl |-> 0]

\* get_top_3_futures_from_tv_symbol has not been called by itself
NoCall == [tv_symbol |-> <<>>, exchange |-> None, hit |-> FALSE,
           instruments_calls |-> 0, listed |-> FALSE, stored |-> FALSE,
           df |-> <<>>, contracts |-> <<>>, entry |-> NoEntry]

\* the rollover scheduler has not run
NoRun == [today |-> 0, positions |-> <<>>, tracked_base_symbols |-> <<>>,
          due |-> <<>>, placed |-> <<>>, outcome |-> None]

\* a datetime: the day since 1970-01-01, the second of the day and the
\* microsecond of the second
DateTime(day, s, us) == [day |-> day, s |-> s, us |-> us]

\* rollover_check has been created and has not yet read the clock
NoLoop == [pc |-> "top", now |-> DateTime(0, 0, 0), next_run |-> DateTime(0, 0, 0),
           raised |-> None, slept |-> 0]

Init ==
  /\ pc = [r \in Reqs |-> "new"]
  /\ payload = [r \in Reqs |-> NoPayload]
  /\ redis_keys = {}
  /\ attempt = [r \in Reqs |-> 0]
  /\ is_dup = [r \in Reqs |-> None]
  /\ fail_open = {}
  /\ expired = {}
  /\ FORWARD_TESTING_MODE \in BOOLEAN
  /\ instrument_cache = [s \in Segments |-> NoEntry]
  /\ contract_cache = EmptyCache
  /\ acct = [r \in Reqs |-> NoAcct]
  /\ po = [r \in Reqs |-> NoPo]
  /\ orders = <<>>
  /\ events = [r \in Reqs |-> <<>>]
  /\ result = [r \in Reqs |-> [status |-> None, error |-> None]]
  /\ ledger = <<>>
  /\ pnl = NoReport
  /\ resolved = NoCall
  /\ rollover = NoRun
  /\ scheduler = NoLoop
  /\ fifo = NoFifo

(***************************************************************************)
(* webhook, app.py: token check and timestamp check.                       *)
(***************************************************************************)
Webhook(r, p, token_ok) ==
  /\ pc[r] = "new"
  /\ \A q \in Reqs : q < r => pc[q] # "new"
  /\ IF ~token_ok
       THEN /\ pc' = [pc EXCEPT ![r] = "unauthorized"]
            /\ UNCHANGED payload
       ELSE IF p.time = NoTime
         THEN /\ pc' = [pc EXCEPT ![r] = "no_timestamp"]
              /\ UNCHANGED payload
         ELSE /\ pc' = [pc EXCEPT ![r] = "is_duplicate"]
              /\ payload' = [payload EXCEPT ![r] = p]
  /\ UNCHANGED <<gateVars, FORWARD_TESTING_MODE, pnlVars, schedVars, cacheVars, acct, orderVars, result>>

(***************************************************************************)
(* redis_utils.is_duplicate: one iteration of the retry loop.              *)
(***************************************************************************)
RedisOutcomes == {"ok", "ConnectionError", "Exception"}

\* a SET without nx=True: it overwrites the key and always reports success
RedisSetNoNx(keys, key) ==
  [was_set |-> TRUE, keys |-> keys \cup {key}]

\* a test-then-set whose write is lost
RedisSetNoPersist(keys, key) ==
  [was_set |-> key \notin keys, keys |-> keys]

\* redis_client.set(key, "1", nx=True, ex=86400)
RedisSetNx(keys, key) ==
  [was_set |-> key \notin keys, keys |-> keys \cup {key}]

\* an is_duplicate that reports a duplicate when redis cannot be reached
IsDuplicateFailClosed(r, outcome) ==
  /\ pc[r] = "is_duplicate"
  /\ LET key == IdempotencyKey(payload[r].symbol, payload[r].time)
         res == RedisSetNx(redis_keys, key)
     IN IF outcome = "ok"
          THEN /\ redis_keys' = res.keys
               /\ is_dup' = [is_dup EXCEPT ![r] = ~res.was_set]
               /\ pc' = [pc EXCEPT ![r] =
                           IF ~res.was_set THEN "duplicate" ELSE "admitted"]
               /\ UNCHANGED <<attempt, fail_open>>
          ELSE /\ is_dup' = [is_dup EXCEPT ![r] = TRUE]
               /\ pc' = [pc EXCEPT ![r] = "duplicate"]
               /\ fail_open' = fail_open \cup {r}
               /\ UNCHANGED <<attempt, redis_keys>>
  /\ UNCHANGED <<payload, expired, FORWARD_TESTING_MODE, pnlVars, schedVars, cacheVars, acct,
                 orderVars, result>>

IsDuplicate(r, outcome) ==
  /\ pc[r] = "is_duplicate"
  /\ LET key == IdempotencyKey(payload[r].symbol, payload[r].time)
         res == RedisSetNx(redis_keys, key)
     IN CASE outcome = "ok" ->
               /\ redis_keys' = res.keys
               /\ is_dup' = [is_dup EXCEPT ![r] = ~res.was_set]
               /\ pc' = [pc EXCEPT ![r] =
                           IF ~res.was_set THEN "duplicate" ELSE "admitted"]
               /\ UNCHANGED <<attempt, fail_open>>
          [] outcome = "ConnectionError" ->
               /\ IF attempt[r] < max_retries - 1
                    THEN /\ attempt' = [attempt EXCEPT ![r] = @ + 1]
                         /\ UNCHANGED <<pc, is_dup, fail_open>>
                    ELSE /\ is_dup' = [is_dup EXCEPT ![r] = FALSE]
                         /\ pc' = [pc EXCEPT ![r] = "admitted"]
                         /\ fail_open' = fail_open \cup {r}
                         /\ UNCHANGED attempt
               /\ UNCHANGED redis_keys
          [] outcome = "Exception" ->
               /\ is_dup' = [is_dup EXCEPT ![r] = FALSE]
               /\ pc' = [pc EXCEPT ![r] = "admitted"]
               /\ fail_open' = fail_open \cup {r}
               /\ UNCHANGED <<attempt, redis_keys>>
  /\ UNCHANGED <<payload, expired, FORWARD_TESTING_MODE, pnlVars, schedVars, cacheVars, acct,
                 orderVars, result>>

(***************************************************************************)
(* The 24h expiry (ex=86400) of an idempotency key, as an environment      *)
(* step.                                                                   *)
(***************************************************************************)
ExpireKey(key) ==
  /\ key \in redis_keys
  /\ redis_keys' = redis_keys \ {key}
  /\ expired' = expired \cup {key}
  /\ UNCHANGED <<pc, payload, attempt, is_dup, fail_open, FORWARD_TESTING_MODE, pnlVars, schedVars,
                 cacheVars, acct, orderVars, result>>

(***************************************************************************)
(* get_top_3_futures_from_tv_symbol (orders.py) behind get_contracts_cached *)
(* (performance_optimizations.py).                                         *)
(***************************************************************************)
\* cache_read_ok: get_instrument_cache reached redis; instruments: the
\* outcome of kite.instruments on a miss; cache_write_ok:
\* set_instrument_cache reached redis
\* a resolver that asks the broker for the listing on every call
GetTop3FuturesUncached(cache, tv_symbol, exchange, cache_read_ok, instruments, cache_write_ok) ==
  IF instruments.exc # None
    THEN [contracts |-> <<>>, instruments_calls |-> 1, df |-> <<>>,
          cache |-> cache]
  ELSE [contracts |-> ContractsFromDf(instruments.rows, tv_symbol),
        instruments_calls |-> 1, df |-> instruments.rows,
        cache |-> IF cache_write_ok
                    THEN [cache EXCEPT ![exchange] =
                            [set |-> TRUE,
                             df |-> [i \in 1..Len(instruments.rows) |->
                                       JsonRoundTrip(instruments.rows[i])]]]
                    ELSE cache]

GetTop3Futures(cache, tv_symbol, exchange, cache_read_ok, instruments, cache_write_ok) ==
  LET hit == cache_read_ok /\ cache[exchange].set
  IN IF hit
       THEN [contracts |-> ContractsFromDf(cache[exchange].df, tv_symbol),
             instruments_calls |-> 0, df |-> cache[exchange].df,
             cache |-> cache]
     ELSE IF instruments.exc # None
       THEN [contracts |-> <<>>, instruments_calls |-> 1, df |-> <<>>,
             cache |-> cache]
     ELSE [contracts |-> ContractsFromDf(instruments.rows, tv_symbol),
           instruments_calls |-> 1, df |-> instruments.rows,
           cache |-> IF cache_write_ok
                       THEN [cache EXCEPT ![exchange] =
                               [set |-> TRUE,
                                df |-> [i \in 1..Len(instruments.rows) |->
                                          JsonRoundTrip(instruments.rows[i])]]]
                       ELSE cache]

\* a handler that keeps the request cache of the signals before it
ClearRequestCacheNever(ccache) == ccache

\* perf_optimizer.clear_request_cache()
ClearRequestCache(ccache) == EmptyCache

\* cache_key = f"{tv_symbol}_{segment}"
CacheKey(tv_symbol, segment) == tv_symbol \o <<"_", segment>>

GetContractsCached(ccache, icache, tv_symbol, segment, cache_read_ok, instruments, cache_write_ok) ==
  LET cache_key == CacheKey(tv_symbol, segment)
  IN IF cache_key \in DOMAIN ccache
       THEN [contracts |-> ccache[cache_key], ccache |-> ccache, icache |-> icache]
     ELSE LET t == GetTop3Futures(icache, tv_symbol, segment, cache_read_ok,
                                  instruments, cache_write_ok)
          IN [contracts |-> t.contracts,
              ccache |-> [k \in DOMAIN ccache \cup {cache_key} |->
                            IF k = cache_key THEN t.contracts ELSE ccache[k]],
              icache |-> t.cache]

(***************************************************************************)
(* webhook, app.py, after the gate: quantity, action check, request cache  *)
(* and the start of process_account_optimized up to its first broker read. *)
(***************************************************************************)
\* a handler that takes the quantity of a futures signal as it is sent
ExtractQuantityAsSent(p) == IF p.quantity # 0 THEN p.quantity ELSE 1

\* quantity = int(payload.quantity) if ... payload.quantity else 1, and 1 for
\* NFO and MCX
ExtractQuantity(p) ==
  IF p.segment \in {"NFO", "MCX"} THEN 1
  ELSE IF p.quantity # 0 THEN p.quantity ELSE 1

Respond(r, status, error) ==
  /\ pc' = [pc EXCEPT ![r] = "responded"]
  /\ result' = [result EXCEPT ![r] = [status |-> status, error |-> error]]

WebhookProcess(r, cache_read_ok, instruments, cache_write_ok) ==
  /\ pc[r] = "admitted"
  /\ LET p == payload[r]
         quantity == ExtractQuantity(p)
     IN IF p.action \notin {"buy", "sell"}
          THEN /\ pc' = [pc EXCEPT ![r] = "invalid_action"]
               /\ UNCHANGED <<cacheVars, acct, result>>
        ELSE IF p.segment \in {"NFO", "MCX"}
          THEN LET cleared == ClearRequestCache(contract_cache)
                   hit == CacheKey(p.symbol, p.segment) \in DOMAIN cleared
                   g == GetContractsCached(cleared, instrument_cache,
                                           p.symbol, p.segment, cache_read_ok,
                                           instruments, cache_write_ok)
                   looked_up == [NoAcct EXCEPT !.quantity = quantity,
                                               !.cleared = 1,
                                               !.contract_hit = hit,
                                               !.resolutions = IF hit THEN 0 ELSE 1]
               IN /\ contract_cache' = g.ccache
                  /\ instrument_cache' = g.icache
                  /\ IF g.contracts = <<>>
                       THEN /\ Respond(r, "error", "No futures contracts found")
                            /\ acct' = [acct EXCEPT ![r] = looked_up]
                       ELSE /\ acct' = [acct EXCEPT ![r] =
                                          [looked_up EXCEPT !.contracts = g.contracts,
                                                            !.idx = 1]]
                            /\ pc' = [pc EXCEPT ![r] = "scan"]
                            /\ UNCHANGED result
        ELSE /\ contract_cache' = ClearRequestCache(contract_cache)
             /\ acct' = [acct EXCEPT ![r] =
                           [NoAcct EXCEPT !.quantity = quantity,
                                          !.tradingsymbol = p.symbol,
                                          !.lot_size = 1,
                                          !.total_quantity = quantity,
                                          !.cleared = 1]]
             /\ pc' = [pc EXCEPT ![r] = "read"]
             /\ UNCHANGED <<instrument_cache, result>>
  /\ UNCHANGED <<payload, gateVars, FORWARD_TESTING_MODE, pnlVars, schedVars, orderVars>>

(***************************************************************************)
(* process_account_optimized, Step 2: act on the decision.  a is the       *)
(* request's locals after Step 1.                                          *)
(***************************************************************************)
Dispatch(r, a) ==
  LET p == payload[r]
      d == Reconcile(p.action, p.segment, a.qty_held, p.price, a.tradingsymbol,
                     a.total_quantity, None, p.symbol, None)
  IN IF d.kind = "skip"
       THEN /\ acct' = [acct EXCEPT ![r] = a]
            /\ Respond(r, d.status, None)
            /\ UNCHANGED orderVars
     ELSE IF CallRaisesTypeError(d.args)
       THEN /\ acct' = [acct EXCEPT ![r] = [a EXCEPT !.branch = d.branch]]
            /\ Respond(r, "error", "An internal error occurred")
            /\ UNCHANGED orderVars
     ELSE /\ acct' = [acct EXCEPT ![r] = [a EXCEPT !.branch = d.branch]]
          /\ po' = [po EXCEPT ![r] =
                      [NoPo EXCEPT !.tradingsymbol = d.args[2],
                                   !.action = d.args[3],
                                   !.price = d.args[4],
                                   !.segment = d.args[5],
                                   !.quantity = d.args[6]]]
          /\ events' = [events EXCEPT ![r] = Append(@, Ev("place_order", d.args))]
          /\ pc' = [pc EXCEPT ![r] = "po_log"]
          /\ UNCHANGED <<orders, result>>

\* a scan that trades the front contract wherever it found the position
ScanContractFrontOnly(r, positions, today) ==
  /\ pc[r] = "scan"
  /\ LET a == acct[r]
         contract == a.contracts[a.idx]
         contract_qty == QtyHeldDirect(payload[r].segment, contract.tradingsymbol,
                                       Returned(<<>>), positions)
         read == [a EXCEPT !.read_exc = ReadExc(Returned(<<>>), positions),
                           !.scanned = Append(@, contract_qty)]
         Chosen(c, qty) == [read EXCEPT !.qty_held = qty,
                                        !.tradingsymbol = c.tradingsymbol,
                                        !.lot_size = c.lot_size,
                                        !.total_quantity = a.quantity * c.lot_size]
     IN IF contract_qty # 0
          THEN Dispatch(r, Chosen(a.contracts[1], contract_qty))
        ELSE IF a.idx < Len(a.contracts)
          THEN /\ acct' = [acct EXCEPT ![r] = [read EXCEPT !.idx = @ + 1]]
               /\ UNCHANGED <<pc, result, orderVars>>
        ELSE Dispatch(r, [Chosen(SelectContract(a.contracts, today), 0)
                            EXCEPT !.today = today])
  /\ UNCHANGED <<payload, gateVars, FORWARD_TESTING_MODE, pnlVars, schedVars, cacheVars>>

\* one pass of the loop over the candidate contracts (NFO, MCX); when all
\* are flat, today is what datetime.now().date() reads
ScanContract(r, positions, today) ==
  /\ pc[r] = "scan"
  /\ LET a == acct[r]
         contract == a.contracts[a.idx]
         contract_qty == QtyHeldDirect(payload[r].segment, contract.tradingsymbol,
                                       Returned(<<>>), positions)
         read == [a EXCEPT !.read_exc = ReadExc(Returned(<<>>), positions),
                           !.scanned = Append(@, contract_qty)]
         Chosen(c, qty) == [read EXCEPT !.qty_held = qty,
                                        !.tradingsymbol = c.tradingsymbol,
                                        !.lot_size = c.lot_size,
                                        !.total_quantity = a.quantity * c.lot_size]
     IN IF contract_qty # 0
          THEN Dispatch(r, Chosen(contract, contract_qty))
        ELSE IF a.idx < Len(a.contracts)
          THEN /\ acct' = [acct EXCEPT ![r] = [read EXCEPT !.idx = @ + 1]]
               /\ UNCHANGED <<pc, result, orderVars>>
        ELSE Dispatch(r, [Chosen(SelectContract(a.contracts, today), 0)
                            EXCEPT !.today = today])
  /\ UNCHANGED <<payload, gateVars, FORWARD_TESTING_MODE, pnlVars, schedVars, cacheVars>>

\* the parallel holdings and positions read of the cash segment
ReadCash(r, holdings, positions) ==
  /\ pc[r] = "read"
  /\ Dispatch(r, [acct[r] EXCEPT
                    !.qty_held =
                      QtyHeldDirect(payload[r].segment, acct[r].tradingsymbol,
                                    holdings, positions),
                    !.read_exc = ReadExc(holdings, positions),
                    !.survivor_qty =
                      SurvivorQty(payload[r].segment, acct[r].tradingsymbol,
                                  holdings, positions)])
  /\ UNCHANGED <<payload, gateVars, FORWARD_TESTING_MODE, pnlVars, schedVars, cacheVars>>

(***************************************************************************)
(* place_order (orders.py), one step per ledger or broker operation.       *)
(***************************************************************************)
\* place_order returns (order_id, error) and process_account_optimized
\* turns it into the account result
Return(r, order_id, error) ==
  /\ po' = [po EXCEPT ![r].ret = <<order_id, error>>]
  /\ Respond(r, StatusAfterOrder(acct[r].branch, order_id),
             IF order_id # None THEN None
             ELSE "Order failed. Please check the server logs.")

\* an update that records successes only
UpdateIfLoggedSuccessOnly(rows, order_log_id, order_id, status, error_message, db_ok) ==
  IF order_log_id # NoId /\ order_id # None
    THEN UpdateOrderResult(rows, order_log_id, order_id, status, error_message, db_ok)
    ELSE rows

\* "if order_log_id: order_db.update_order_result(...)"
UpdateIfLogged(rows, order_log_id, order_id, status, error_message, db_ok) ==
  IF order_log_id # NoId
    THEN UpdateOrderResult(rows, order_log_id, order_id, status, error_message,
                           db_ok)
    ELSE rows

UpdateEvents(order_log_id, status) ==
  IF order_log_id # NoId THEN <<Ev("update_order_result", status)>> ELSE <<>>

\* a place_order that goes to the broker without logging the attempt
PoLogSkipped(r, db_ok) ==
  /\ pc[r] = "po_log"
  /\ pc' = [pc EXCEPT ![r] =
              IF FORWARD_TESTING_MODE THEN "po_forward" ELSE "po_check"]
  /\ UNCHANGED <<payload, gateVars, FORWARD_TESTING_MODE, pnlVars, schedVars, cacheVars, acct, result,
                 orderVars>>

\* STEP 1 and STEP 2: the ATTEMPTING row
PoLog(r, db_ok) ==
  /\ pc[r] = "po_log"
  /\ LET o == po[r]
         l == LogOrderAttempt(orders, o.tradingsymbol, o.segment,
                              TransactionType(o.action), o.quantity, o.price,
                              "MARKET", LedgerProduct(o.segment), db_ok)
     IN /\ orders' = l.rows
        /\ po' = [po EXCEPT ![r].order_log_id = l.order_log_id]
        /\ events' = [events EXCEPT ![r] =
                        Append(@, Ev("log_order_attempt", l.order_log_id))]
  /\ pc' = [pc EXCEPT ![r] =
              IF FORWARD_TESTING_MODE THEN "po_forward" ELSE "po_check"]
  /\ UNCHANGED <<payload, gateVars, FORWARD_TESTING_MODE, pnlVars, schedVars, cacheVars, acct, result>>

\* a forward test that returns the simulated id and leaves the row as it was
PoForwardUnrecorded(r, db_ok) ==
  /\ pc[r] = "po_forward"
  /\ Return(r, "SIM", None)
  /\ UNCHANGED <<payload, gateVars, FORWARD_TESTING_MODE, pnlVars, schedVars, cacheVars, acct,
                 orders, events>>

\* forward testing: a simulated order id, no broker call
PoForward(r, db_ok) ==
  /\ pc[r] = "po_forward"
  /\ LET o == po[r]
         simulated_order_id == "SIM"
     IN /\ orders' = UpdateIfLogged(orders, o.order_log_id, simulated_order_id,
                                    "FORWARD_TEST_SUCCESS", None, db_ok)
        /\ events' = [events EXCEPT ![r] =
                        @ \o UpdateEvents(o.order_log_id, "FORWARD_TEST_SUCCESS")]
        /\ Return(r, simulated_order_id, None)
  /\ UNCHANGED <<payload, gateVars, FORWARD_TESTING_MODE, pnlVars, schedVars, cacheVars, acct>>

DuplicateError == <<"Duplicate", "order", "prevented">>

\* STEP 3: check_existing_pending_orders; the event of kite.orders keeps the
\* statuses the broker reported for orders of the same key
PoCheck(r, orders_response, db_ok) ==
  /\ pc[r] = "po_check"
  /\ LET o == po[r]
         has_duplicate == HasDuplicatePending(orders_response, o.tradingsymbol,
                                              o.action, o.segment)
         asked == Ev("kite.orders",
                     SameKeyStatuses(orders_response, o.tradingsymbol, o.action,
                                     o.segment))
         order_details == OrderDetails(orders_response, o.tradingsymbol,
                                       o.action, o.segment)
     IN IF has_duplicate
          THEN /\ orders' = UpdateIfLogged(orders, o.order_log_id, None,
                                           "DUPLICATE_PREVENTED", DuplicateError,
                                           db_ok)
               /\ events' = [events EXCEPT ![r] =
                               @ \o <<asked>>
                                 \o UpdateEvents(o.order_log_id,
                                                 "DUPLICATE_PREVENTED")]
               /\ po' = [po EXCEPT ![r].order_details = order_details,
                                   ![r].ret = <<None, DuplicateError>>]
               /\ Respond(r, StatusAfterOrder(acct[r].branch, None),
                          "Order failed. Please check the server logs.")
          ELSE /\ events' = [events EXCEPT ![r] = Append(@, asked)]
               /\ po' = [po EXCEPT ![r].order_details = order_details]
               /\ pc' = [pc EXCEPT ![r] = "po_market"]
               /\ UNCHANGED <<orders, result>>
  /\ UNCHANGED <<payload, gateVars, FORWARD_TESTING_MODE, pnlVars, schedVars, cacheVars, acct>>

\* STEP 4: order_params of the market order
OrderParams(o) ==
  [tradingsymbol |-> o.tradingsymbol, exchange |-> o.segment,
   transaction_type |-> TransactionType(o.action), quantity |-> o.quantity,
   order_type |-> "MARKET", product |-> BrokerProduct(o.segment),
   variety |-> "regular"]

\* order_params_with_protection, the price in thousandths
OrderParamsWithProtection(o) ==
  [tradingsymbol |-> o.tradingsymbol, exchange |-> o.segment,
   transaction_type |-> TransactionType(o.action), quantity |-> o.quantity,
   order_type |-> "LIMIT", product |-> BrokerProduct(o.segment),
   variety |-> "regular", price |-> ProtectedPrice(o.price, o.action),
   validity |-> "DAY", disclosed_quantity |-> 0, tag |-> "market_protection"]

\* ATTEMPT 1: the market order.  outcome is Placed or the broker's rejection;
\* db_ok1 and db_ok2 are the outcomes of the ledger updates that follow
PoMarket(r, outcome, db_ok1, db_ok2) ==
  /\ pc[r] = "po_market"
  /\ LET o == po[r]
         placed == Ev("kite.place_order", OrderParams(o))
     IN IF outcome = Placed
          THEN /\ orders' = UpdateIfLogged(orders, o.order_log_id, "ORD",
                                           "SUCCESS", None, db_ok1)
               /\ events' = [events EXCEPT ![r] =
                               @ \o <<placed>>
                                 \o UpdateEvents(o.order_log_id, "SUCCESS")]
               /\ Return(r, "ORD", None)
        ELSE IF IsIlliquidError(outcome)
          THEN /\ po' = [po EXCEPT ![r].market_order_error = outcome]
               /\ events' = [events EXCEPT ![r] = Append(@, placed)]
               /\ pc' = [pc EXCEPT ![r] = "po_retry"]
               /\ UNCHANGED <<orders, result>>
        ELSE \* updated in the handler of the market order, re-raised and
             \* updated again in the outer handler
             /\ orders' = UpdateIfLogged(
                            UpdateIfLogged(orders, o.order_log_id, None, "FAILED",
                                           outcome, db_ok1),
                            o.order_log_id, None, "FAILED", outcome, db_ok2)
             /\ events' = [events EXCEPT ![r] =
                             @ \o <<placed>>
                               \o UpdateEvents(o.order_log_id, "FAILED")
                               \o UpdateEvents(o.order_log_id, "FAILED")]
             /\ Return(r, None, outcome)
  /\ UNCHANGED <<payload, gateVars, FORWARD_TESTING_MODE, pnlVars, schedVars, cacheVars, acct>>

\* ATTEMPT 2: the limit order with market protection
PoRetry(r, outcome, db_ok) ==
  /\ pc[r] = "po_retry"
  /\ LET o == po[r]
         placed == Ev("kite.place_order", OrderParamsWithProtection(o))
         combined_error == <<"Both", "failed", "Original">> \o o.market_order_error
                           \o <<"Protected">> \o outcome
     IN IF outcome = Placed
          THEN /\ orders' = UpdateIfLogged(orders, o.order_log_id, "ORD_P",
                                           "SUCCESS", None, db_ok)
               /\ events' = [events EXCEPT ![r] =
                               @ \o <<placed>>
                                 \o UpdateEvents(o.order_log_id, "SUCCESS")]
               /\ Return(r, "ORD_P", None)
          ELSE /\ orders' = UpdateIfLogged(orders, o.order_log_id, None, "FAILED",
                                           combined_error, db_ok)
               /\ events' = [events EXCEPT ![r] =
                               @ \o <<placed>>
                                 \o UpdateEvents(o.order_log_id, "FAILED")]
               /\ Return(r, None, combined_error)
  /\ UNCHANGED <<payload, gateVars, FORWARD_TESTING_MODE, pnlVars, schedVars, cacheVars, acct>>

(***************************************************************************)
(* One signal, with every outcome of every redis, broker and ledger        *)
(* operation.                                                              *)
(***************************************************************************)
NextSignal ==
  \/ \E p \in Payloads, token_ok \in BOOLEAN : Webhook(1, p, token_ok)
  \/ \E r \in Reqs, outcome \in RedisOutcomes : IsDuplicate(r, outcome)
  \/ \E key \in redis_keys : ExpireKey(key)
  \/ \E r \in Reqs :
       \E cache_read_ok \in BOOLEAN, cache_write_ok \in BOOLEAN,
          instruments \in {Returned(rows) : rows \in
                             InstrumentLists(payload[r].segment)}
                          \cup {Raised("Exception")} :
         WebhookProcess(r, cache_read_ok, instruments, cache_write_ok)
  \/ \E r \in Reqs :
       /\ pc[r] = "scan"
       /\ \E today \in Days,
             positions \in PositionsResponses(
                             acct[r].contracts[acct[r].idx].tradingsymbol,
                             payload[r].segment) \cup ReadFailures :
            ScanContract(r, positions, today)
  \/ \E r \in Reqs :
       /\ pc[r] = "read"
       /\ \E holdings \in HoldingsResponses(acct[r].tradingsymbol) \cup ReadFailures,
             positions \in PositionsResponses(acct[r].tradingsymbol,
                                              payload[r].segment)
                           \cup ReadFailures :
            ReadCash(r, holdings, positions)
  \/ \E r \in Reqs, db_ok \in BOOLEAN : PoLog(r, db_ok)
  \/ \E r \in Reqs, db_ok \in BOOLEAN : PoForward(r, db_ok)
  \/ \E r \in Reqs :
       /\ pc[r] = "po_check"
       /\ \E db_ok \in BOOLEAN,
             orders_response \in OrdersResponses(po[r].tradingsymbol, po[r].segment)
                                 \cup {Raised("Exception")} :
            PoCheck(r, orders_response, db_ok)
  \/ \E r \in Reqs, outcome \in {Placed} \cup PlaceOrderErrors,
        db_ok1 \in BOOLEAN, db_ok2 \in BOOLEAN :
       PoMarket(r, outcome, db_ok1, db_ok2)
  \/ \E r \in Reqs, outcome \in {Placed} \cup PlaceOrderErrors, db_ok \in BOOLEAN :
       PoRetry(r, outcome, db_ok)

SpecSignal == Init /\ [][NextSignal]_vars

(***************************************************************************)
(* Several signals in flight at once.  To keep the product of their states *)
(* small the signals are cash-segment signals of one quantity and the      *)
(* environment is drawn from fewer cases: positions and holdings of one    *)
(* unit, a ledger that may fail on the insert only, and one rejection of   *)
(* each class.                                                             *)
(***************************************************************************)
PayloadsFew ==
  {p \in Payloads : p.segment = "NSE" /\ p.quantity = 0 /\ p.time # NoTime
                    /\ p.action \in {"buy", "sell"}}

PositionsFew(ts, segment) ==
  {Returned(<<>>),
   Returned(<<[tradingsymbol |-> ts, exchange |-> segment, quantity |-> 0 - 1]>>)}

HoldingsFew(ts) ==
  {Returned(<<>>), Returned(<<[tradingsymbol |-> ts, quantity |-> 1]>>)}

OrdersFew(ts, segment) ==
  {Returned(<<>>),
   Returned(<<[tradingsymbol |-> ts, exchange |-> segment,
               transaction_type |-> "BUY", status |-> "OPEN"]>>),
   Returned(<<[tradingsymbol |-> ts, exchange |-> segment,
               transaction_type |-> "SELL", status |-> "OPEN"]>>)}

Next ==
  \/ \E r \in Reqs, p \in PayloadsFew, token_ok \in BOOLEAN : Webhook(r, p, token_ok)
  \/ \E r \in Reqs, outcome \in RedisOutcomes : IsDuplicate(r, outcome)
  \/ \E key \in redis_keys : ExpireKey(key)
  \/ \E r \in Reqs : WebhookProcess(r, TRUE, Returned(<<>>), TRUE)
  \/ \E r \in Reqs :
       /\ pc[r] = "read"
       /\ \E holdings \in HoldingsFew(acct[r].tradingsymbol),
             positions \in PositionsFew(acct[r].tradingsymbol, payload[r].segment) :
            ReadCash(r, holdings, positions)
  \/ \E r \in Reqs, db_ok \in BOOLEAN : PoLog(r, db_ok)
  \/ \E r \in Reqs : PoForward(r, TRUE)
  \/ \E r \in Reqs :
       /\ pc[r] = "po_check"
       /\ \E orders_response \in OrdersFew(po[r].tradingsymbol, po[r].segment) :
            PoCheck(r, orders_response, TRUE)
  \/ \E r \in Reqs, outcome \in {Placed, ErrIlliquidEtf, ErrFunds} :
       PoMarket(r, outcome, TRUE, TRUE)
  \/ \E r \in Reqs, outcome \in {Placed, ErrFunds} : PoRetry(r, outcome, TRUE)

Spec == Init /\ [][Next]_vars

(***************************************************************************)
(* Normal operation: one signal, with every outcome of every redis and     *)
(* broker operation, and a ledger store that is reachable.                 *)
(***************************************************************************)
NextNormal ==
  \/ \E p \in Payloads, token_ok \in BOOLEAN : Webhook(1, p, token_ok)
  \/ \E r \in Reqs, outcome \in RedisOutcomes : IsDuplicate(r, outcome)
  \/ \E key \in redis_keys : ExpireKey(key)
  \/ \E r \in Reqs :
       \E cache_read_ok \in BOOLEAN, cache_write_ok \in BOOLEAN,
          instruments \in {Returned(rows) : rows \in
                             InstrumentLists(payload[r].segment)}
                          \cup {Raised("Exception")} :
         WebhookProcess(r, cache_read_ok, instruments, cache_write_ok)
  \/ \E r \in Reqs :
       /\ pc[r] = "scan"
       /\ \E today \in Days,
             positions \in PositionsResponses(
                             acct[r].contracts[acct[r].idx].tradingsymbol,
                             payload[r].segment) \cup ReadFailures :
            ScanContract(r, positions, today)
  \/ \E r \in Reqs :
       /\ pc[r] = "read"
       /\ \E holdings \in HoldingsResponses(acct[r].tradingsymbol) \cup ReadFailures,
             positions \in PositionsResponses(acct[r].tradingsymbol,
                                              payload[r].segment)
                           \cup ReadFailures :
            ReadCash(r, holdings, positions)
  \/ \E r \in Reqs : PoLog(r, TRUE)
  \/ \E r \in Reqs : PoForward(r, TRUE)
  \/ \E r \in Reqs :
       /\ pc[r] = "po_check"
       /\ \E orders_response \in OrdersResponses(po[r].tradingsymbol, po[r].segment)
                                 \cup {Raised("Exception")} :
            PoCheck(r, orders_response, TRUE)
  \/ \E r \in Reqs, outcome \in {Placed} \cup PlaceOrderErrors :
       PoMarket(r, outcome, TRUE, TRUE)
  \/ \E r \in Reqs, outcome \in {Placed} \cup PlaceOrderErrors :
       PoRetry(r, outcome, TRUE)

SpecNormal == Init /\ [][NextNormal]_vars

(***************************************************************************)
(* Several futures signals in flight at once, in forward-testing mode:     *)
(* the signals share the request cache of perf_optimizer, and each one is  *)
(* suspended at its position reads.                                        *)
(***************************************************************************)
PayloadsFutures ==
  [action : {"buy", "sell"}, symbol : {NF1}, segment : {"NFO"}, price : Prices,
   time : Times, quantity : {MaxQuantity}]
  \cup [action : {"buy"}, symbol : {CR1}, segment : {"MCX"}, price : Prices,
        time : {T1}, quantity : {MaxQuantity}]

NextFutures ==
  \/ \E r \in Reqs, p \in PayloadsFutures : Webhook(r, p, TRUE)
  \/ \E r \in Reqs : IsDuplicate(r, "ok")
  \/ \E r \in Reqs :
       \E cache_read_ok \in BOOLEAN, cache_write_ok \in BOOLEAN,
          instruments \in {Returned(rows) : rows \in
                             InstrumentLists(payload[r].segment)} :
         WebhookProcess(r, cache_read_ok, instruments, cache_write_ok)
  \/ \E r \in Reqs :
       /\ pc[r] = "scan"
       /\ \E positions \in PositionsFew(
                              acct[r].contracts[acct[r].idx].tradingsymbol,
                              payload[r].segment) :
            ScanContract(r, positions, 1)
  \/ \E r \in Reqs : PoLog(r, TRUE)
  \/ \E r \in Reqs : PoForward(r, TRUE)

InitFutures == Init /\ FORWARD_TESTING_MODE

SpecFutures == InitFutures /\ [][NextFutures]_vars

(***************************************************************************)
(* P&L of a symbol (database.py).  A stored row is an order attempt after  *)
(* log_order_attempt and update_order_result; its timestamp is the clock   *)
(* reading at the insert, so the storage order need not be the time order. *)
(* Prices are whole numbers.                                               *)
(***************************************************************************)
Attempt(timestamp, tradingsymbol, exchange, transaction_type, quantity, price, status, order_id) ==
  [timestamp |-> timestamp, tradingsymbol |-> tradingsymbol,
   exchange |-> exchange, transaction_type |-> transaction_type,
   quantity |-> quantity, price |-> price, status |-> status,
   order_id |-> order_id]

\* the order attempts that may be stored, each with its own timestamp
Attempts ==
  {Attempt(1, "RELIANCE", "NSE", "BUY", 10, 2500, "SUCCESS", "ORD"),
   Attempt(3, "RELIANCE", "NSE", "BUY", 5, 2520, "SUCCESS", "ORD"),
   Attempt(2, "RELIANCE", "NSE", "SELL", 8, 2580, "SUCCESS", "ORD"),
   Attempt(4, "RELIANCE", "NSE", "SELL", 7, 2590, "SUCCESS", "ORD"),
   Attempt(0, "RELIANCE", "NSE", "SELL", 4, 2400, "FORWARD_TEST_SUCCESS", "SIM"),
   Attempt(5, "RELIANCE", "NSE", "BUY", 10, 2000, "FAILED", None),
   Attempt(6, "RELIANCE", "NSE", "SELL", 8, 3000, "SUCCESS", None),
   Attempt(7, "RELIANCE", "NSE", "BUY", 5, 2000, "ATTEMPTING", None),
   Attempt(8, "RELIANCE", "NSE", "SELL", 7, 3000, "DUPLICATE_PREVENTED", None),
   Attempt(9, "INFY", "NSE", "BUY", 10, 1000, "SUCCESS", "ORD"),
   Attempt(10, "RELIANCE", "BSE", "SELL", 8, 9000, "SUCCESS", "ORD")}

\* the (tradingsymbol, exchange) pairs the P&L is asked for
Pairs == {<<"RELIANCE", "NSE">>, <<"INFY", "NSE">>, <<"RELIANCE", "BSE">>}

\* the rows of a sequence whose index is in keep, in their order
Where(rows, keep) ==
  LET RECURSIVE W(_)
      W(n) == IF n = 0 THEN <<>>
              ELSE IF n \in keep THEN Append(W(n - 1), rows[n]) ELSE W(n - 1)
  IN W(Len(rows))

\* a sort by timestamp that puts the latest row first
RECURSIVE SortByTimestampLatestFirst(_)
SortByTimestampLatestFirst(rows) ==
  IF rows = <<>> THEN <<>>
  ELSE LET m == CHOOSE i \in 1..Len(rows) :
                  \A j \in 1..Len(rows) :
                    \/ rows[i].timestamp > rows[j].timestamp
                    \/ rows[i].timestamp = rows[j].timestamp /\ i <= j
       IN <<rows[m]>>
            \o SortByTimestampLatestFirst(Where(rows, (1..Len(rows)) \ {m}))

\* ORDER BY timestamp ASC and sorted(key=timestamp): ascending and stable
RECURSIVE SortByTimestamp(_)
SortByTimestamp(rows) ==
  IF rows = <<>> THEN <<>>
  ELSE LET m == CHOOSE i \in 1..Len(rows) :
                  \A j \in 1..Len(rows) :
                    \/ rows[i].timestamp < rows[j].timestamp
                    \/ rows[i].timestamp = rows[j].timestamp /\ i <= j
       IN <<rows[m]>> \o SortByTimestamp(Where(rows, (1..Len(rows)) \ {m}))

\* a query by tradingsymbol alone
GetOrdersBySymbolAnyExchange(rows, tradingsymbol, exchange) ==
  SortByTimestamp(Where(rows, {i \in 1..Len(rows) :
                                 rows[i].tradingsymbol = tradingsymbol}))

\* get_orders_by_symbol with an exchange
GetOrdersBySymbol(rows, tradingsymbol, exchange) ==
  SortByTimestamp(Where(rows, {i \in 1..Len(rows) :
                                 /\ rows[i].tradingsymbol = tradingsymbol
                                 /\ rows[i].exchange = exchange}))

\* sum(o[field] for o in rows), field being quantity or quantity * price
RECURSIVE SumOf(_, _)
SumOf(rows, value) ==
  IF rows = <<>> THEN 0
  ELSE (IF value = "quantity" THEN Head(rows).quantity
        ELSE Head(rows).quantity * Head(rows).price)
       + SumOf(Tail(rows), value)

Min(a, b) == IF a < b THEN a ELSE b

\* the while loop of _calculate_fifo_pnl; the indices count from 0 and the
\* quantity of the sell order is reduced in place
RECURSIVE FifoLoop(_, _, _, _, _, _)
FifoLoop(buy_queue, sell_queue, buy_idx, sell_idx, remaining_buy_qty, realized_pnl) ==
  IF ~(buy_idx < Len(buy_queue) /\ sell_idx < Len(sell_queue))
    THEN [realized_pnl |-> realized_pnl, sell_queue |-> sell_queue]
    ELSE LET sell_order == sell_queue[sell_idx + 1]
             buy_order == buy_queue[buy_idx + 1]
             match_qty == Min(remaining_buy_qty, sell_order.quantity)
             pnl_of_match == (sell_order.price - buy_order.price) * match_qty
             remaining == remaining_buy_qty - match_qty
             sell_left == sell_order.quantity - match_qty
             next_buy_idx == IF remaining = 0 THEN buy_idx + 1 ELSE buy_idx
         IN FifoLoop(buy_queue,
                     [sell_queue EXCEPT ![sell_idx + 1].quantity = sell_left],
                     next_buy_idx,
                     IF sell_left = 0 THEN sell_idx + 1 ELSE sell_idx,
                     IF remaining = 0 /\ next_buy_idx < Len(buy_queue)
                       THEN buy_queue[next_buy_idx + 1].quantity
                       ELSE remaining,
                     realized_pnl + pnl_of_match)

\* a matching that takes the latest orders first
CalculateLifoPnl(buy_orders, sell_orders) ==
  IF buy_orders = <<>> \/ sell_orders = <<>>
    THEN [realized_pnl |-> 0, sell_queue |-> sell_orders]
    ELSE LET buy_queue == SortByTimestampLatestFirst(buy_orders)
             sell_queue == SortByTimestampLatestFirst(sell_orders)
         IN FifoLoop(buy_queue, sell_queue, 0, 0, buy_queue[1].quantity, 0)

\* a matching that takes the orders in the order they are passed in
CalculateFifoPnlAsPassed(buy_orders, sell_orders) ==
  IF buy_orders = <<>> \/ sell_orders = <<>>
    THEN [realized_pnl |-> 0, sell_queue |-> sell_orders]
    ELSE FifoLoop(buy_orders, sell_orders, 0, 0, buy_orders[1].quantity, 0)

\* _calculate_fifo_pnl: the realized P&L and the sell orders as it leaves them
CalculateFifoPnl(buy_orders, sell_orders) ==
  IF buy_orders = <<>> \/ sell_orders = <<>>
    THEN [realized_pnl |-> 0, sell_queue |-> sell_orders]
    ELSE LET buy_queue == SortByTimestamp(buy_orders)
             sell_queue == SortByTimestamp(sell_orders)
         IN FifoLoop(buy_queue, sell_queue, 0, 0, buy_queue[1].quantity, 0)

\* total_value / total_qty if total_qty > 0 else 0, as a fraction
AvgPrice(rows) ==
  IF rows # <<>> /\ SumOf(rows, "quantity") > 0
    THEN [num |-> SumOf(rows, "value"), den |-> SumOf(rows, "quantity")]
    ELSE [num |-> 0, den |-> 1]

\* the sell orders of the answer are the rows _calculate_fifo_pnl reduced
SellOrdersAfter(sell_orders, sell_queue) ==
  [i \in 1..Len(sell_orders) |->
     LET j == CHOOSE k \in 1..Len(sell_queue) : sell_queue[k].id = sell_orders[i].id
     IN sell_queue[j]]

\* calculate_symbol_pnl on the table rows
calculate_symbol_pnl(rows, tradingsymbol, exchange) ==
  LET orders_of_symbol == GetOrdersBySymbol(rows, tradingsymbol, exchange)
      successful_orders ==
        Where(orders_of_symbol,
              {i \in 1..Len(orders_of_symbol) :
                 /\ orders_of_symbol[i].status \in {"SUCCESS", "FORWARD_TEST_SUCCESS"}
                 /\ orders_of_symbol[i].order_id # None})
      buy_orders ==
        Where(successful_orders,
              {i \in 1..Len(successful_orders) :
                 successful_orders[i].transaction_type = "BUY"})
      sell_orders ==
        Where(successful_orders,
              {i \in 1..Len(successful_orders) :
                 successful_orders[i].transaction_type = "SELL"})
      total_buy_qty == SumOf(buy_orders, "quantity")
      total_sell_qty == SumOf(sell_orders, "quantity")
      matched == CalculateFifoPnl(buy_orders, sell_orders)
  IN IF successful_orders = <<>>
       THEN [tradingsymbol |-> tradingsymbol, exchange |-> exchange,
             total_buy_qty |-> 0, total_sell_qty |-> 0, current_position |-> 0,
             realized_pnl |-> 0, avg_buy_price |-> [num |-> 0, den |-> 1],
             avg_sell_price |-> [num |-> 0, den |-> 1], trades |-> <<>>]
       ELSE [tradingsymbol |-> tradingsymbol, exchange |-> exchange,
             total_buy_qty |-> total_buy_qty, total_sell_qty |-> total_sell_qty,
             current_position |-> total_buy_qty - total_sell_qty,
             realized_pnl |-> matched.realized_pnl,
             avg_buy_price |-> AvgPrice(buy_orders),
             avg_sell_price |-> AvgPrice(sell_orders),
             buy_orders |-> buy_orders,
             sell_orders |-> SellOrdersAfter(sell_orders, matched.sell_queue)]

\* an order attempt is stored: the row gets the next id
StoreOrder(a) ==
  /\ pnl = NoReport
  /\ Len(ledger) < MaxRows
  /\ \A i \in 1..Len(ledger) : ledger[i].timestamp # a.timestamp
  /\ ledger' = Append(ledger,
                      [id |-> Len(ledger) + 1, order_id |-> a.order_id,
                       tradingsymbol |-> a.tradingsymbol, exchange |-> a.exchange,
                       transaction_type |-> a.transaction_type,
                       quantity |-> a.quantity, price |-> a.price,
                       status |-> a.status, timestamp |-> a.timestamp])
  /\ UNCHANGED <<pc, payload, gateVars, FORWARD_TESTING_MODE, schedVars, cacheVars, acct,
                 orderVars, result, pnl, fifo>>

\* the dashboard asks for the P&L of a symbol
CalculateSymbolPnl(tradingsymbol, exchange) ==
  /\ pnl = NoReport
  /\ pnl' = calculate_symbol_pnl(ledger, tradingsymbol, exchange)
  /\ UNCHANGED <<pc, payload, gateVars, FORWARD_TESTING_MODE, schedVars, cacheVars, acct,
                 orderVars, result, ledger, fifo>>

NextPnl ==
  \/ \E a \in Attempts : StoreOrder(a)
  \/ \E pair \in Pairs : CalculateSymbolPnl(pair[1], pair[2])

\* the table is empty and live mode is on
InitPnl == Init /\ ~FORWARD_TESTING_MODE

SpecPnl == InitPnl /\ [][NextPnl]_vars

(***************************************************************************)
(* The matching loop of _calculate_fifo_pnl, one iteration at a time       *)
(* (database.py).  The rows carry any whole quantity, zero and negative    *)
(* ones included.                                                          *)
(***************************************************************************)
MaxFifoLen == 2
MaxFifoQty == 2

\* the rows a caller may pass, buys and sells at different prices
FifoRows(price) ==
  [timestamp : 1..2, quantity : (0 - 1)..MaxFifoQty, price : {price}]

\* the lists of at most MaxFifoLen rows
FifoLists(price) ==
  UNION {[1..n -> FifoRows(price)] : n \in 0..MaxFifoLen}

\* the condition of the while loop
FifoCondition(f) ==
  f.buy_idx < Len(f.buy_queue) /\ f.sell_idx < Len(f.sell_queue)

\* an iteration that skips a match of quantity 0 without moving on
FifoIterateSkipZero(f) ==
  LET sell_order == f.sell_queue[f.sell_idx + 1]
      buy_order == f.buy_queue[f.buy_idx + 1]
      match_qty == Min(f.remaining_buy_qty, sell_order.quantity)
      remaining == f.remaining_buy_qty - match_qty
      sell_left == sell_order.quantity - match_qty
      next_buy_idx == IF remaining = 0 THEN f.buy_idx + 1 ELSE f.buy_idx
  IN IF match_qty = 0 THEN f
     ELSE [f EXCEPT
             !.realized_pnl = @ + (sell_order.price - buy_order.price) * match_qty,
             !.sell_queue[f.sell_idx + 1].quantity = sell_left,
             !.buy_idx = next_buy_idx,
             !.remaining_buy_qty =
               IF remaining = 0 /\ next_buy_idx < Len(f.buy_queue)
                 THEN f.buy_queue[next_buy_idx + 1].quantity
                 ELSE remaining,
             !.sell_idx = IF sell_left = 0 THEN @ + 1 ELSE @]

\* the body of the while loop, once
FifoIterate(f) ==
  LET sell_order == f.sell_queue[f.sell_idx + 1]
      buy_order == f.buy_queue[f.buy_idx + 1]
      match_qty == Min(f.remaining_buy_qty, sell_order.quantity)
      remaining == f.remaining_buy_qty - match_qty
      sell_left == sell_order.quantity - match_qty
      next_buy_idx == IF remaining = 0 THEN f.buy_idx + 1 ELSE f.buy_idx
  IN [f EXCEPT
        !.realized_pnl = @ + (sell_order.price - buy_order.price) * match_qty,
        !.sell_queue[f.sell_idx + 1].quantity = sell_left,
        !.buy_idx = next_buy_idx,
        !.remaining_buy_qty =
          IF remaining = 0 /\ next_buy_idx < Len(f.buy_queue)
            THEN f.buy_queue[next_buy_idx + 1].quantity
            ELSE remaining,
        !.sell_idx = IF sell_left = 0 THEN @ + 1 ELSE @]

fifoFrame == <<pc, payload, gateVars, FORWARD_TESTING_MODE, schedVars, cacheVars, acct, orderVars, result, ledger, pnl>>

\* _calculate_fifo_pnl is called: the early return, or the sorts and the
\* initial values of the loop
FifoCall(buy_orders, sell_orders) ==
  /\ fifo.pc = "idle"
  /\ fifo' =
       IF buy_orders = <<>> \/ sell_orders = <<>>
         THEN [NoFifo EXCEPT !.pc = "returned", !.buy_queue = buy_orders,
                             !.sell_queue = sell_orders]
         ELSE LET buy_queue == SortByTimestamp(buy_orders)
              IN [pc |-> "while", buy_queue |-> buy_queue,
                  sell_queue |-> SortByTimestamp(sell_orders),
                  buy_idx |-> 0, sell_idx |-> 0,
                  remaining_buy_qty |-> buy_queue[1].quantity,
                  realized_pnl |-> 0]
  /\ UNCHANGED fifoFrame

\* the loop condition holds and the body runs once
FifoIteration ==
  /\ fifo.pc = "while"
  /\ FifoCondition(fifo)
  /\ fifo' = FifoIterate(fifo)
  /\ UNCHANGED fifoFrame

\* the loop condition fails and realized_pnl is returned
FifoReturn ==
  /\ fifo.pc = "while"
  /\ ~FifoCondition(fifo)
  /\ fifo' = [fifo EXCEPT !.pc = "returned"]
  /\ UNCHANGED fifoFrame

\* the interpreter runs the function once it is called
FifoStep == FifoIteration \/ FifoReturn

NextFifo ==
  \/ \E buy_orders \in FifoLists(100) :
       \E sell_orders \in FifoLists(110) : FifoCall(buy_orders, sell_orders)
  \/ FifoStep

InitFifo == Init /\ ~FORWARD_TESTING_MODE

SpecFifo == InitFifo /\ [][NextFifo]_vars /\ WF_vars(FifoStep)

(***************************************************************************)
(* Contract resolution by itself and the rollover scheduler (app.py,       *)
(* rollover_check), one action per call and one per scheduler run.         *)
(***************************************************************************)
\* what kite.instruments(exchange=...) may answer
InstrumentsResponses(exchange) ==
  {Returned(rows) : rows \in InstrumentLists(exchange)} \cup {Raised("Exception")}

\* the symbols contract resolution is asked for
TvSymbols == {NF1, CR1, <<"N", "F", "!">>, <<"B", "N", "!">>, <<"C", "R", "!">>}

\* one call of get_top_3_futures_from_tv_symbol(tv_symbol, kite, exchange)
GetTop3FuturesFromTvSymbol(tv_symbol, exchange, cache_read_ok, instruments, cache_write_ok) ==
  /\ LET t == GetTop3Futures(instrument_cache, tv_symbol, exchange,
                             cache_read_ok, instruments, cache_write_ok)
     IN /\ instrument_cache' = t.cache
        /\ resolved' = [tv_symbol |-> tv_symbol, exchange |-> exchange,
                        hit |-> cache_read_ok /\ instrument_cache[exchange].set,
                        instruments_calls |-> t.instruments_calls,
                        listed |-> t.instruments_calls = 1
                                   /\ instruments.exc = None,
                        stored |-> t.instruments_calls = 1
                                   /\ instruments.exc = None /\ cache_write_ok,
                        df |-> t.df, contracts |-> t.contracts,
                        entry |-> t.cache[exchange]]
  /\ UNCHANGED <<pc, payload, gateVars, FORWARD_TESTING_MODE, pnlVars,
                 contract_cache, acct, orderVars, result, rollover, scheduler>>

\* set_instrument_cache(exchange, df): the DataFrame is stored as JSON
SetInstrumentCache(exchange, rows) ==
  /\ instrument_cache' = [instrument_cache EXCEPT ![exchange] =
                            [set |-> TRUE,
                             df |-> [i \in 1..Len(rows) |-> JsonRoundTrip(rows[i])]]]
  /\ UNCHANGED <<pc, payload, gateVars, FORWARD_TESTING_MODE, pnlVars,
                 contract_cache, acct, orderVars, result, schedVars>>

\* the instrument cache key of a segment expires (ex=86400)
ExpireInstrumentCache(exchange) ==
  /\ instrument_cache[exchange].set
  /\ instrument_cache' = [instrument_cache EXCEPT ![exchange] = NoEntry]
  /\ UNCHANGED <<pc, payload, gateVars, FORWARD_TESTING_MODE, pnlVars,
                 contract_cache, acct, orderVars, result, schedVars>>

\* the net positions the scheduler may read
RolloverNet ==
  <<[tradingsymbol |-> SBIN, exchange |-> "NSE", product |-> "CNC", quantity |-> 1],
    [tradingsymbol |-> NF_A, exchange |-> "NFO", product |-> "MIS", quantity |-> 2],
    [tradingsymbol |-> NF_A, exchange |-> "NFO", product |-> "NRML", quantity |-> 0 - 2],
    [tradingsymbol |-> NF_A, exchange |-> "NFO", product |-> "NRML", quantity |-> 2],
    [tradingsymbol |-> NF_B, exchange |-> "NFO", product |-> "NRML", quantity |-> 3],
    [tradingsymbol |-> CR_A, exchange |-> "MCX", product |-> "NRML", quantity |-> 4]>>

\* what kite.positions()["net"] may answer the scheduler: at most two of
\* these positions, or a failure (the account is not authenticated)
RolloverPositions ==
  {Returned(rows) : rows \in
     {<<>>} \cup {<<RolloverNet[i]>> : i \in DOMAIN RolloverNet}
     \cup {<<RolloverNet[ij[1]], RolloverNet[ij[2]]>> :
             ij \in {x \in (DOMAIN RolloverNet) \X (DOMAIN RolloverNet) : x[1] < x[2]}}}
  \cup {Raised("Exception")}

\* what kite.instruments answers the scheduler when it is asked
SchedulerListings ==
  {[seg \in {"NFO", "MCX"} |->
      IF seg = "NFO" THEN nfo ELSE Returned(<<I_CR_B, I_CR_A>>)] :
     nfo \in {Returned(<<I_NF_D, I_NF_B, I_NF_A, I_NF_CE, I_NF_C>>),
              Raised("Exception")}}

\* the underlyings of the instruments, in ascending string order
Underlyings == <<<<"B", "N">>, <<"C", "R">>, <<"N", "F">>>>

\* instrument_lookups[seg] = df.set_index('tradingsymbol')['name'].to_dict(),
\* looked up with .get(tradingsymbol): the name of the last row with that
\* tradingsymbol, <<>> when there is none
LookupName(df, tradingsymbol) ==
  LET rows == {i \in 1..Len(df) : df[i].tradingsymbol = tradingsymbol}
  IN IF rows = {} THEN <<>>
     ELSE df[CHOOSE i \in rows : \A j \in rows : j <= i].name

\* the segments whose instrument cache could be loaded
LoadedLookups(cache, cache_read_ok) ==
  {seg \in {"NFO", "MCX"} : cache_read_ok /\ cache[seg].set}

\* the base symbols of the NRML long positions, as sorted(list(...))
TrackedBaseSymbols(cache, lookups, positions) ==
  LET tracked == {LookupName(cache[positions[i].exchange].df,
                             positions[i].tradingsymbol) :
                    i \in {j \in 1..Len(positions) :
                             /\ positions[j].exchange \in lookups
                             /\ positions[j].product = "NRML"
                             /\ positions[j].quantity > 0}} \ {<<>>}
      Tracked(base_symbol) == base_symbol \in tracked
  IN SelectSeq(Underlyings, Tracked)

\* next((p for p in positions if p["tradingsymbol"] == current_symbol and
\* p["exchange"] in ["NFO", "MCX"]), None), as the index of the match or 0
FirstDerivativePosition(positions, current_symbol) ==
  LET matches == {i \in 1..Len(positions) :
                    /\ positions[i].tradingsymbol = current_symbol
                    /\ positions[i].exchange \in {"NFO", "MCX"}}
  IN IF matches = {} THEN 0
     ELSE CHOOSE i \in matches : \A j \in matches : i <= j

RECURSIVE RolloverLoop(_, _, _, _, _, _, _)
\* the loop over the tracked base symbols.  For a position that is due the
\* two place_order calls are commented out and the next statement reads the
\* name order_id, which is bound nowhere: NameError, which ends the run in
\* the handler of the outer try.
RolloverLoop(symbols, cache, positions, today, cache_read_ok, instruments, cache_write_ok) ==
  IF symbols = <<>>
    THEN [cache |-> cache, due |-> <<>>, placed |-> <<>>, outcome |-> "completed"]
  ELSE
    LET base_symbol == Head(symbols)
        nfo == GetTop3Futures(cache, base_symbol \o <<"!">>, "NFO",
                              cache_read_ok, instruments["NFO"], cache_write_ok)
        mcx == GetTop3Futures(nfo.cache, base_symbol \o <<"!">>, "MCX",
                              cache_read_ok, instruments["MCX"], cache_write_ok)
        contracts == IF nfo.contracts # <<>> THEN nfo.contracts ELSE mcx.contracts
        cache_after == IF nfo.contracts # <<>> THEN nfo.cache ELSE mcx.cache
        rest == RolloverLoop(Tail(symbols), cache_after, positions, today,
                             cache_read_ok, instruments, cache_write_ok)
    IN IF Len(contracts) < 2 THEN rest
       ELSE
         LET current_contract == contracts[1]
             next_contract == contracts[2]
             expiry == IF current_contract.expiry.kind = "int"
                         THEN (current_contract.expiry.v \div 1000) \div 86400
                         ELSE current_contract.expiry.v
             days_left == expiry - today
             i == FirstDerivativePosition(positions, current_contract.tradingsymbol)
             qty_held == IF i = 0 THEN 0 ELSE positions[i].quantity
         IN IF days_left <= 7 /\ Weekday(today) < 5 /\ qty_held > 0
              THEN [cache |-> cache_after,
                    due |-> <<[current_symbol |-> current_contract.tradingsymbol,
                               next_symbol |-> next_contract.tradingsymbol,
                               segment |-> positions[i].exchange,
                               qty_held |-> qty_held]>>,
                    placed |-> <<>>,
                    outcome |-> "NameError"]
            ELSE rest

\* the body of one iteration of rollover_check after its sleep: lookups
\* from the instrument cache, the positions read, the tracked base symbols
\* and the loop
RolloverRun(today, positions, cache_read_ok, instruments, cache_write_ok) ==
  /\ IF positions.exc # None
       THEN /\ rollover' = [NoRun EXCEPT !.today = today, !.outcome = "skipped"]
            /\ UNCHANGED instrument_cache
       ELSE LET lookups == LoadedLookups(instrument_cache, cache_read_ok)
                tracked == TrackedBaseSymbols(instrument_cache, lookups,
                                              positions.rows)
                run == RolloverLoop(tracked, instrument_cache, positions.rows,
                                    today, cache_read_ok, instruments,
                                    cache_write_ok)
            IN /\ rollover' = [today |-> today, positions |-> positions.rows,
                               tracked_base_symbols |-> tracked,
                               due |-> run.due, placed |-> run.placed,
                               outcome |-> run.outcome]
               /\ instrument_cache' = run.cache
  /\ UNCHANGED <<pc, payload, gateVars, FORWARD_TESTING_MODE, pnlVars,
                 contract_cache, acct, orderVars, result, resolved>>

\* one run of rollover_check after its sleep
RolloverCheck(today, positions, cache_read_ok, instruments, cache_write_ok) ==
  /\ RolloverRun(today, positions, cache_read_ok, instruments, cache_write_ok)
  /\ UNCHANGED scheduler

\* the scheduler sleeps until 09:25 of a weekday: a run reads a weekday
RunDays == {d \in Days : Weekday(d) < 5}

NextResolver ==
  \/ \E tv_symbol \in TvSymbols, exchange \in {"NFO", "MCX"},
        cache_read_ok \in BOOLEAN, cache_write_ok \in BOOLEAN :
       \E instruments \in InstrumentsResponses(exchange) :
         GetTop3FuturesFromTvSymbol(tv_symbol, exchange, cache_read_ok,
                                    instruments, cache_write_ok)
  \/ \E exchange \in {"NFO", "MCX"} : ExpireInstrumentCache(exchange)

InitResolver == Init /\ FORWARD_TESTING_MODE

SpecResolver == InitResolver /\ [][NextResolver]_vars

NextScheduler ==
  \/ \E exchange \in {"NFO", "MCX"} :
       \E rows \in InstrumentLists(exchange) : SetInstrumentCache(exchange, rows)
  \/ \E exchange \in {"NFO", "MCX"} : ExpireInstrumentCache(exchange)
  \/ \E today \in RunDays, positions \in RolloverPositions,
        cache_read_ok \in BOOLEAN, cache_write_ok \in BOOLEAN :
       \E instruments \in SchedulerListings :
         RolloverCheck(today, positions, cache_read_ok, instruments,
                       cache_write_ok)

InitScheduler == Init /\ ~FORWARD_TESTING_MODE

SpecScheduler == InitScheduler /\ [][NextScheduler]_vars

(***************************************************************************)
(* The loop of rollover_check (app.py): the computation of the next wake   *)
(* time, the sleep until it, the iteration and the sleep after an error.   *)
(* The clock is read as datetime.now() reads it, never earlier than the    *)
(* reading before.                                                         *)
(***************************************************************************)
\* the last day on which the scheduler is woken
MaxDay == 6

\* 09:25:00 as the second of the day
RunSecond == 33900

\* asyncio.sleep(60) in the handler of the outer try
RetrySleep == 60

SecondsPerDay == 86400

\* a < b on datetimes
Earlier(a, b) ==
  \/ a.day < b.day
  \/ a.day = b.day /\ a.s < b.s
  \/ a.day = b.day /\ a.s = b.s /\ a.us < b.us

\* dt + timedelta(seconds=n)
PlusSeconds(dt, n) ==
  DateTime(dt.day + (dt.s + n) \div SecondsPerDay, (dt.s + n) % SecondsPerDay, dt.us)

\* the times of day the clock is read at: midnight, the last microsecond
\* before 09:25, 09:25 sharp, the first microsecond after it and the last
\* microsecond of the day
TimesOfDay ==
  {<<0, 0>>, <<RunSecond - 1, 999999>>, <<RunSecond, 0>>, <<RunSecond, 1>>,
   <<SecondsPerDay - 1, 999999>>}

Instants == {DateTime(day, t[1], t[2]) : day \in 0..MaxDay, t \in TimesOfDay}

\* what datetime.now() may read when the reading before was at least t
ClockFrom(t) == {t} \cup {i \in Instants : Earlier(t, i)}

RECURSIVE SkipWeekend(_)
\* while next_run.weekday() >= 5: next_run += timedelta(days=1)
SkipWeekend(next_run) ==
  IF Weekday(next_run.day) >= 5
    THEN SkipWeekend([next_run EXCEPT !.day = @ + 1])
    ELSE next_run

\* a wake time that is moved to the next day only when 09:25 has passed
NextRunNotStrict(now) ==
  LET next_run == DateTime(now.day, RunSecond, 0)
  IN SkipWeekend(IF Earlier(next_run, now)
                   THEN [next_run EXCEPT !.day = @ + 1]
                   ELSE next_run)

\* next_run as the top of the loop computes it from now
NextRun(now) ==
  LET next_run == DateTime(now.day, RunSecond, 0)
  IN SkipWeekend(IF ~Earlier(now, next_run)
                   THEN [next_run EXCEPT !.day = @ + 1]
                   ELSE next_run)

\* a loop whose outer handler lets the exception end the task
AfterRunUnhandled(outcome) ==
  IF outcome = "NameError" THEN "ended" ELSE "top"

\* where the loop goes on after the body of an iteration: to the handler of
\* the outer try when the body raised, else to the top (the failed
\* positions read is left with continue)
AfterRun(outcome) ==
  IF outcome = "NameError" THEN "except" ELSE "top"

\* the top of the loop: now, next_run and the start of the sleep
RolloverSleep(now) ==
  /\ scheduler.pc = "top"
  /\ scheduler' = [scheduler EXCEPT !.pc = "sleeping", !.now = now,
                                    !.next_run = NextRun(now)]
  /\ UNCHANGED <<pc, payload, gateVars, FORWARD_TESTING_MODE, pnlVars, cacheVars,
                 acct, orderVars, result, resolved, rollover>>

\* asyncio.sleep(sleep_seconds) returns at now, and the iteration runs
RolloverIteration(now, positions, cache_read_ok, instruments, cache_write_ok) ==
  /\ scheduler.pc = "sleeping"
  /\ scheduler.next_run.day <= MaxDay
  /\ RolloverRun(now.day, positions, cache_read_ok, instruments, cache_write_ok)
  /\ scheduler' = [scheduler EXCEPT
                     !.pc = AfterRun(rollover'.outcome),
                     !.now = now,
                     !.raised = IF positions.exc # None THEN "positions"
                                ELSE IF rollover'.outcome = "NameError"
                                  THEN "NameError"
                                ELSE None,
                     !.slept = 0]

\* the handler of the outer try: the exception is logged and the task sleeps
\* a fixed interval
RolloverRetrySleep(now) ==
  /\ scheduler.pc = "except"
  /\ scheduler' = [scheduler EXCEPT !.pc = "top", !.now = now,
                                    !.slept = RetrySleep]
  /\ UNCHANGED <<pc, payload, gateVars, FORWARD_TESTING_MODE, pnlVars, cacheVars,
                 acct, orderVars, result, resolved, rollover>>

\* the positions the scheduler of the loop may read
LoopPositions ==
  {Returned(<<>>), Returned(<<RolloverNet[4]>>), Returned(<<RolloverNet[5]>>),
   Raised("Exception")}

SchedulerStep ==
  \/ \E now \in ClockFrom(scheduler.now) : RolloverSleep(now)
  \/ \E now \in ClockFrom(scheduler.next_run), positions \in LoopPositions,
        cache_read_ok \in BOOLEAN, instruments \in SchedulerListings :
       RolloverIteration(now, positions, cache_read_ok, instruments, TRUE)
  \/ \E now \in ClockFrom(PlusSeconds(scheduler.now, RetrySleep)) :
       RolloverRetrySleep(now)

NextLoop ==
  \/ SetInstrumentCache("NFO", <<I_NF_D, I_NF_B, I_NF_A, I_NF_CE, I_NF_C>>)
  \/ SchedulerStep

InitLoop == Init /\ ~FORWARD_TESTING_MODE

\* the task is scheduled whenever its sleep or its call has returned
SpecLoop == InitLoop /\ [][NextLoop]_vars /\ WF_vars(SchedulerStep)

(***************************************************************************)
(* Vocabulary of the properties.                                           *)
(***************************************************************************)
\* the requests that reached the idempotency gate
Submitted == {r \in Reqs : payload[r] # NoPayload}

\* the requests that carry the (symbol, signal_time) pair of r
SamePair(r) ==
  {q \in Submitted : /\ payload[q].symbol = payload[r].symbol
                     /\ payload[q].time = payload[r].time}

KeyOf(r) == IdempotencyKey(payload[r].symbol, payload[r].time)

\* is_duplicate has returned to r
GateDone(r) ==
  pc[r] \notin {"new", "unauthorized", "no_timestamp", "is_duplicate"}

\* the handler of r has finished
Finished(r) == pc[r] \in {"duplicate", "invalid_action", "responded"}

NonDuplicateTerminal == {"SUCCESS", "FAILED", "FORWARD_TEST_SUCCESS"}

\* the ledger rows written for the requests in rs
RowsOf(rs) == {po[q].order_log_id : q \in rs} \ {NoId}

\* r produced an OrderAttempt that reached a terminal status other than
\* DUPLICATE_PREVENTED
Produced(r) ==
  /\ po[r].order_log_id # NoId
  /\ orders[po[r].order_log_id].status \in NonDuplicateTerminal

\* no call of the pair of r failed open and its key never expired
GateIntact(r) ==
  /\ KeyOf(r) \notin expired
  /\ SamePair(r) \cap fail_open = {}

\* the reconciliation of r has read the position and decided
Decided(r) ==
  /\ pc[r] \in {"po_log", "po_forward", "po_check", "po_market", "po_retry",
                "responded"}
  /\ acct[r].tradingsymbol # <<>>

\* the positions in events[r] of the operations named op
EventsOf(r, op) == {i \in 1..Len(events[r]) : events[r][i].op = op}

BrokerOps == {"kite.orders", "kite.place_order"}

\* r called place_order once, first of all, for the given side and quantity
\* on the instrument the reconciliation chose
CalledOnce(r, action, quantity) ==
  /\ Cardinality(EventsOf(r, "place_order")) = 1
  /\ events[r][1].op = "place_order"
  /\ events[r][1].a[2] = acct[r].tradingsymbol
  /\ events[r][1].a[3] = action
  /\ events[r][1].a[5] = payload[r].segment
  /\ events[r][1].a[6] = quantity

\* every order r sent to the broker is of the given side and quantity on
\* the instrument the reconciliation chose
OrdersAre(r, transaction_type, quantity) ==
  \A i \in EventsOf(r, "kite.place_order") :
    /\ events[r][i].a.tradingsymbol = acct[r].tradingsymbol
    /\ events[r][i].a.exchange = payload[r].segment
    /\ events[r][i].a.transaction_type = transaction_type
    /\ events[r][i].a.quantity = quantity

\* r left no trace in the ledger and never entered place_order
NoSubmission(r) ==
  /\ events[r] = <<>>
  /\ po[r] = NoPo
  /\ \A i \in 1..Len(orders) : \E q \in Reqs \ {r} : po[q].order_log_id = i

\* for the cash segment the instrument is the spot symbol with lot size 1;
\* for the derivative segments it is one of the resolved candidates
OnResolvedInstrument(r) ==
  IF payload[r].segment = "NSE"
    THEN acct[r].tradingsymbol = payload[r].symbol /\ acct[r].lot_size = 1
    ELSE \E i \in 1..Len(acct[r].contracts) :
           /\ acct[r].contracts[i].tradingsymbol = acct[r].tradingsymbol
           /\ acct[r].contracts[i].lot_size = acct[r].lot_size

(***************************************************************************)
(* C1 as stated: of the signals of one (symbol, signal_time) pair          *)
(* submitted more than once, once all of them have been handled, exactly   *)
(* one has produced an OrderAttempt with a terminal status other than      *)
(* DUPLICATE_PREVENTED.  It is read in its favour: only for pairs whose    *)
(* gate calls were all answered by the store and whose key has not         *)
(* expired.                                                                *)
(***************************************************************************)
C1_ExactlyOneProduces ==
  \A r \in Submitted :
    (/\ Cardinality(SamePair(r)) > 1
     /\ GateIntact(r)
     /\ \A q \in SamePair(r) : Finished(q))
      => Cardinality({q \in SamePair(r) : Produced(q)}) = 1

(***************************************************************************)
(* C1, amended: of the signals of one (symbol, signal_time) pair, none of  *)
(* whose gate calls failed open and whose key has not expired, once all of *)
(* them have been handled exactly one was admitted by the gate; every      *)
(* other one was answered as a duplicate without entering place_order or   *)
(* writing a row; and only the admitted one can have produced an           *)
(* OrderAttempt with a terminal status other than DUPLICATE_PREVENTED.     *)
(***************************************************************************)
C1_ExactlyOneAdmitted ==
  \A r \in Submitted :
    (GateIntact(r) /\ \A q \in SamePair(r) : Finished(q))
      => LET admitted == {q \in SamePair(r) : is_dup[q] = FALSE}
         IN /\ Cardinality(admitted) = 1
            /\ \A q \in SamePair(r) \ admitted :
                 pc[q] = "duplicate" /\ is_dup[q] = TRUE /\ NoSubmission(q)
            /\ {q \in SamePair(r) : Produced(q)} \subseteq admitted

C1_Witness ==
  \E r \in Submitted, q \in Submitted :
    /\ r # q
    /\ q \in SamePair(r)
    /\ GateIntact(r)
    /\ Finished(r) /\ Finished(q)
    /\ Produced(r)
    /\ pc[q] = "duplicate"

(***************************************************************************)
(* C2 as stated: in every reachable state, whatever the idempotency store  *)
(* and the broker answer, at most one OrderAttempt of a (symbol,           *)
(* signal_time) pair has a terminal status other than DUPLICATE_PREVENTED. *)
(* It is read in its favour: only for pairs whose key has not expired.     *)
(***************************************************************************)
C2_AtMostOneTerminal ==
  \A r \in Submitted :
    KeyOf(r) \notin expired
      => Cardinality({i \in RowsOf(SamePair(r)) :
                        orders[i].status \in NonDuplicateTerminal}) <= 1

(***************************************************************************)
(* C2, amended: in every reachable state, for a (symbol, signal_time) pair *)
(* none of whose gate calls failed open and whose key has not expired, at  *)
(* most one OrderAttempt row exists at all, and so at most one with a      *)
(* terminal status other than DUPLICATE_PREVENTED.                         *)
(***************************************************************************)
C2_AtMostOneWhileGateIntact ==
  \A r \in Submitted :
    GateIntact(r)
      => /\ Cardinality(RowsOf(SamePair(r))) <= 1
         /\ Cardinality({i \in RowsOf(SamePair(r)) :
                           orders[i].status \in NonDuplicateTerminal}) <= 1
         /\ Cardinality({q \in SamePair(r) : EventsOf(q, "place_order") # {}}) <= 1

C2_Witness ==
  \E r \in Submitted, q \in Submitted :
    /\ r # q
    /\ q \in SamePair(r)
    /\ GateIntact(r)
    /\ po[r].order_log_id # NoId
    /\ orders[po[r].order_log_id].status = "SUCCESS"
    /\ GateDone(q)
    /\ is_dup[q] = TRUE

(***************************************************************************)
(* C3: with the store reachable (the call ended with the store's answer,   *)
(* not with the fail-open default) and before the key expires, of the      *)
(* is_duplicate calls made for one (symbol, signal_time) pair exactly one  *)
(* has returned False and every other one True, whatever calls were made   *)
(* for other pairs; a key is set exactly when a call for its pair was      *)
(* answered by the store.                                                  *)
(***************************************************************************)
C3_AtomicSetIfAbsent ==
  \A r \in Submitted :
    LET calls == {q \in SamePair(r) : GateDone(q) /\ q \notin fail_open}
    IN (KeyOf(r) \notin expired /\ calls # {})
         => /\ Cardinality({q \in calls : is_dup[q] = FALSE}) = 1
            /\ \A q \in calls : is_dup[q] \in BOOLEAN
            /\ KeyOf(r) \in redis_keys

C3_Witness ==
  \E r \in Submitted, q \in Submitted :
    /\ r # q
    /\ q \in SamePair(r)
    /\ KeyOf(r) \notin expired
    /\ {r, q} \cap fail_open = {}
    /\ GateDone(r) /\ GateDone(q)
    /\ is_dup[r] = FALSE
    /\ is_dup[q] = TRUE
    /\ attempt[q] > 0

(***************************************************************************)
(* C4: when the position read is long and the action is buy, or it is      *)
(* short and the action is sell, the reconciliation has responded with the *)
(* skip status without calling place_order, without any broker or ledger   *)
(* operation and without a row.                                            *)
(***************************************************************************)
C4_SkipSubmitsNothing ==
  \A r \in Reqs :
    /\ (Decided(r) /\ payload[r].action = "buy" /\ acct[r].qty_held > 0)
         => /\ pc[r] = "responded"
            /\ NoSubmission(r)
            /\ result[r] = [status |-> "already holding, buy skipped",
                            error |-> None]
    /\ (Decided(r) /\ payload[r].action = "sell" /\ acct[r].qty_held < 0)
         => /\ pc[r] = "responded"
            /\ NoSubmission(r)
            /\ result[r] = [status |-> "already short, sell skipped",
                            error |-> None]

C4_Witness ==
  \E r \in Reqs :
    /\ Decided(r)
    /\ payload[r].action = "sell"
    /\ payload[r].segment = "NFO"
    /\ acct[r].qty_held < 0
    /\ acct[r].idx = 2
    /\ result[r].status = "already short, sell skipped"

(***************************************************************************)
(* C5: when the position read is flat and the action is buy, place_order   *)
(* is called exactly once, for a buy of requested quantity x lot_size on   *)
(* the selected instrument (the spot symbol with lot size 1 for the cash   *)
(* segment); every order it sends to the broker is a BUY of that quantity  *)
(* on that instrument; and when it returns an order id the result status   *)
(* is "buy order placed".                                                  *)
(***************************************************************************)
C5_FlatBuy ==
  \A r \in Reqs :
    (Decided(r) /\ payload[r].action = "buy" /\ acct[r].qty_held = 0)
      => /\ CalledOnce(r, "buy", acct[r].quantity * acct[r].lot_size)
         /\ OrdersAre(r, "BUY", acct[r].quantity * acct[r].lot_size)
         /\ OnResolvedInstrument(r)
         /\ (pc[r] = "responded" /\ po[r].ret[1] # None)
              => result[r] = [status |-> "buy order placed", error |-> None]
         /\ (pc[r] = "responded" /\ po[r].ret[1] = None)
              => result[r].status = "buy order failed"

C5_Witness ==
  \E r \in Reqs :
    /\ Decided(r)
    /\ payload[r].action = "buy"
    /\ acct[r].qty_held = 0
    /\ acct[r].quantity * acct[r].lot_size > 1
    /\ pc[r] = "responded"
    /\ po[r].ret[1] = "ORD"
    /\ result[r].status = "buy order placed"

(***************************************************************************)
(* C6 as stated: when the position read is flat and the action is sell,    *)
(* place_order is called exactly once, for a sell of requested quantity x  *)
(* lot_size; every order sent to the broker is a SELL of that quantity,    *)
(* with the MIS product in the cash segment.                               *)
(***************************************************************************)
C6_FlatSell ==
  \A r \in Reqs :
    (Decided(r) /\ payload[r].action = "sell" /\ acct[r].qty_held = 0)
      => /\ CalledOnce(r, "sell", acct[r].quantity * acct[r].lot_size)
         /\ OrdersAre(r, "SELL", acct[r].quantity * acct[r].lot_size)
         /\ \A i \in EventsOf(r, "kite.place_order") :
              payload[r].segment = "NSE" => events[r][i].a.product = "MIS"

(***************************************************************************)
(* C7 as stated: when the position read is short and the action is buy,    *)
(* place_order is called exactly once, for a buy of abs(signed_quantity)   *)
(* on the instrument that carries the short position, and every order sent *)
(* to the broker is a BUY of that quantity.                                *)
(***************************************************************************)
C7_ShortBuyCovers ==
  \A r \in Reqs :
    (Decided(r) /\ payload[r].action = "buy" /\ acct[r].qty_held < 0)
      => /\ CalledOnce(r, "buy", 0 - acct[r].qty_held)
         /\ OrdersAre(r, "BUY", 0 - acct[r].qty_held)

(***************************************************************************)
(* C8: when the position read is long and the action is sell, place_order  *)
(* is called exactly once, for a sell of signed_quantity, whatever         *)
(* quantity the signal asked for, on the instrument whose position was     *)
(* read (for the derivative segments the candidate the scan stopped at);   *)
(* every order sent to the broker is a SELL of that quantity on that       *)
(* instrument.                                                             *)
(***************************************************************************)
C8_LongSellCloses ==
  \A r \in Reqs :
    (Decided(r) /\ payload[r].action = "sell" /\ acct[r].qty_held > 0)
      => /\ CalledOnce(r, "sell", acct[r].qty_held)
         /\ OrdersAre(r, "SELL", acct[r].qty_held)
         /\ OnResolvedInstrument(r)
         /\ payload[r].segment # "NSE"
              => acct[r].tradingsymbol =
                   acct[r].contracts[acct[r].idx].tradingsymbol
         /\ (pc[r] = "responded" /\ po[r].ret[1] # None)
              => result[r] = [status |-> "sell order placed", error |-> None]

C8_Witness ==
  \E r \in Reqs :
    /\ Decided(r)
    /\ payload[r].action = "sell"
    /\ acct[r].qty_held > 0
    /\ acct[r].qty_held # acct[r].total_quantity
    /\ \E i \in EventsOf(r, "kite.place_order") :
         events[r][i].a.quantity = acct[r].qty_held
    /\ result[r].status = "sell order placed"

C10_ExactlyOneUpdate ==
  \A r \in Reqs :
    (pc[r] = "responded" /\ po[r].order_log_id # NoId)
      => Cardinality(EventsOf(r, "update_order_result")) = 1

\* the row of r's submission exists and carries the order place_order was
\* called for
HasRow(r) ==
  /\ po[r].order_log_id \in 1..Len(orders)
  /\ orders[po[r].order_log_id].tradingsymbol = po[r].tradingsymbol
  /\ orders[po[r].order_log_id].exchange = po[r].segment
  /\ orders[po[r].order_log_id].transaction_type = TransactionType(po[r].action)
  /\ orders[po[r].order_log_id].quantity = po[r].quantity

\* place_order has returned to r
Returned_po(r) == pc[r] = "responded" /\ EventsOf(r, "place_order") # {}

TerminalStatuses ==
  {"SUCCESS", "FAILED", "DUPLICATE_PREVENTED", "FORWARD_TEST_SUCCESS"}

(***************************************************************************)
(* C12: with the ledger store reachable, whenever place_order has returned *)
(* (with an order id or with an error) the row it created exists and has a *)
(* terminal status; a row is ATTEMPTING only while its submission is still *)
(* inside place_order.                                                     *)
(***************************************************************************)
C12_NoRowLeftAttempting ==
  /\ \A r \in Reqs :
       Returned_po(r)
         => /\ HasRow(r)
            /\ orders[po[r].order_log_id].status \in TerminalStatuses
            /\ po[r].ret[1] # None
                 <=> orders[po[r].order_log_id].status
                       \in {"SUCCESS", "FORWARD_TEST_SUCCESS"}
  /\ \A i \in 1..Len(orders) :
       orders[i].status = "ATTEMPTING"
         => \E r \in Reqs :
              /\ po[r].order_log_id = i
              /\ pc[r] \in {"po_forward", "po_check", "po_market", "po_retry"}

C12_Witness ==
  \E r \in Reqs :
    /\ Returned_po(r)
    /\ po[r].ret[1] = None
    /\ Cardinality(EventsOf(r, "kite.place_order")) = 2
    /\ orders[po[r].order_log_id].status = "FAILED"

\* the protected retries r sent to the broker
Retries(r) ==
  {i \in EventsOf(r, "kite.place_order") : events[r][i].a.order_type = "LIMIT"}

(***************************************************************************)
(* C13 as stated: after an illiquid-class rejection of the market order    *)
(* place_order retries exactly once, as a LIMIT order with DAY validity at *)
(* reference_price x 1.005 for a BUY and x 0.995 for a SELL (100 gives     *)
(* 100.5 and 99.5); a submission makes at most two placement calls, the    *)
(* first a MARKET order.                                                   *)
(***************************************************************************)
C13_RetryOnceAtProtectedPrice ==
  \A r \in Reqs :
    /\ Cardinality(EventsOf(r, "kite.place_order")) <= 2
    /\ Cardinality(Retries(r)) <= 1
    /\ (Returned_po(r) /\ IsIlliquidError(po[r].market_order_error))
         => Cardinality(Retries(r)) = 1
    /\ \A i \in Retries(r) :
         /\ IsIlliquidError(po[r].market_order_error)
         /\ \E j \in EventsOf(r, "kite.place_order") :
              j < i /\ events[r][j].a.order_type = "MARKET"
         /\ events[r][i].a.validity = "DAY"
         /\ events[r][i].a.price.thousandths
              = IF po[r].action = "buy" THEN po[r].price * 1005
                ELSE po[r].price * 995
         /\ events[r][i].a.price.off = 0

\* the rejections of the model that are illiquid-class by their text
IlliquidClass == {ErrIlliquidEtf, ErrProtection}

\* the market order of r was rejected with an error that is not
\* illiquid-class, and place_order has returned
RejectedOutright(r) ==
  /\ Returned_po(r)
  /\ EventsOf(r, "kite.place_order") # {}
  /\ po[r].ret[1] = None
  /\ po[r].market_order_error = <<>>

(***************************************************************************)
(* C14: a rejection of the market order that is not illiquid-class is      *)
(* terminal: only illiquid-class rejections are ever retried, and after    *)
(* any other rejection place_order has made the one MARKET placement call  *)
(* and no second one, the row ends FAILED with the broker's error text and *)
(* no order id, and place_order returns (None, error) with that text.      *)
(***************************************************************************)
C14_OtherRejectionIsTerminal ==
  \A r \in Reqs :
    /\ Retries(r) # {} => po[r].market_order_error \in IlliquidClass
    /\ po[r].market_order_error \in IlliquidClass \cup {<<>>}
    /\ RejectedOutright(r)
         => /\ Cardinality(EventsOf(r, "kite.place_order")) = 1
            /\ Retries(r) = {}
            /\ po[r].ret[2] \in PlaceOrderErrors \ IlliquidClass
            /\ HasRow(r)
            /\ orders[po[r].order_log_id].status = "FAILED"
            /\ orders[po[r].order_log_id].order_id = None
            /\ orders[po[r].order_log_id].error_message = po[r].ret[2]

C14_Witness ==
  \E r \in Reqs :
    /\ RejectedOutright(r)
    /\ po[r].ret = <<None, ErrFunds>>
    /\ po[r].action = "sell"
    /\ orders[po[r].order_log_id].status = "FAILED"
    /\ orders[po[r].order_log_id].error_message = ErrFunds

\* the text place_order builds when the market order and the retry failed
CombinedError(original, protected) ==
  <<"Both", "failed", "Original">> \o original \o <<"Protected">> \o protected

(***************************************************************************)
(* C15: in live mode, when the broker accepted the market order or the     *)
(* protected retry, the row ends SUCCESS carrying the order id the broker  *)
(* returned for that call and place_order returns (order_id, None); when   *)
(* the market order and the retry were both rejected, the row ends FAILED  *)
(* with no order id and a text that contains both rejections, and          *)
(* place_order returns (None, that text).                                  *)
(***************************************************************************)
C15_SuccessOrBothFailed ==
  \A r \in Reqs :
    (Returned_po(r) /\ ~FORWARD_TESTING_MODE)
      => /\ po[r].ret[1] # None
              => /\ po[r].ret[2] = None
                 /\ po[r].ret[1]
                      = IF Retries(r) = {} THEN "ORD" ELSE "ORD_P"
                 /\ EventsOf(r, "kite.place_order") # {}
                 /\ HasRow(r)
                 /\ orders[po[r].order_log_id].status = "SUCCESS"
                 /\ orders[po[r].order_log_id].order_id = po[r].ret[1]
                 /\ orders[po[r].order_log_id].error_message = None
         /\ (po[r].ret[1] = None /\ Retries(r) # {})
              => /\ HasRow(r)
                 /\ orders[po[r].order_log_id].status = "FAILED"
                 /\ orders[po[r].order_log_id].order_id = None
                 /\ orders[po[r].order_log_id].error_message = po[r].ret[2]
                 /\ Contains(po[r].ret[2], po[r].market_order_error)
                 /\ \E e \in PlaceOrderErrors :
                      /\ po[r].ret[2] = CombinedError(po[r].market_order_error, e)
                      /\ Contains(po[r].ret[2], e)

C15_Witness ==
  \E r \in Reqs :
    /\ Returned_po(r)
    /\ Cardinality(EventsOf(r, "kite.place_order")) = 2
    /\ po[r].ret = <<None, CombinedError(ErrIlliquidEtf, ErrFunds)>>
    /\ orders[po[r].order_log_id].status = "FAILED"
    /\ orders[po[r].order_log_id].error_message
         = CombinedError(ErrIlliquidEtf, ErrFunds)

(***************************************************************************)
(* C16: in forward-testing mode place_order performs no broker operation,  *)
(* neither the open-orders query nor a placement; it still inserts the     *)
(* row, and when it has returned the row is FORWARD_TEST_SUCCESS with the  *)
(* simulated order id, which is what place_order returns, with no error.   *)
(***************************************************************************)
C16_ForwardTestBypassesBroker ==
  \A r \in Reqs :
    FORWARD_TESTING_MODE
      => /\ \A i \in 1..Len(events[r]) : events[r][i].op \notin BrokerOps
         /\ pc[r] \in {"po_forward", "responded"} /\ EventsOf(r, "place_order") # {}
              => /\ Cardinality(EventsOf(r, "log_order_attempt")) = 1
                 /\ HasRow(r)
         /\ pc[r] \notin {"po_check", "po_market", "po_retry"}
         /\ Returned_po(r)
              => /\ po[r].ret = <<"SIM", None>>
                 /\ orders[po[r].order_log_id].status = "FORWARD_TEST_SUCCESS"
                 /\ orders[po[r].order_log_id].order_id = "SIM"
                 /\ orders[po[r].order_log_id].error_message = None

C16_Witness ==
  \E r \in Reqs :
    /\ FORWARD_TESTING_MODE
    /\ Returned_po(r)
    /\ po[r].ret = <<"SIM", None>>
    /\ HasRow(r)
    /\ orders[po[r].order_log_id].status = "FORWARD_TEST_SUCCESS"
    /\ EventsOf(r, "update_order_result") # {}

\* the statuses of an order that is still pending at the broker
NonTerminalStatuses ==
  {"OPEN", "TRIGGER PENDING", "PENDING", "AMO REQ RECEIVED", "MODIFY PENDING",
   "CANCEL PENDING"}

\* the broker's open-order list, as r's duplicate-pending check received it,
\* held an order of the tradingsymbol, exchange and transaction type of r's
\* submission whose status is not terminal
PendingTwin(r) ==
  \E i \in EventsOf(r, "kite.orders") : events[r][i].a \cap NonTerminalStatuses # {}

\* place_order refused the submission of r as a duplicate
Refused(r) ==
  /\ Returned_po(r)
  /\ po[r].ret = <<None, DuplicateError>>
  /\ EventsOf(r, "kite.place_order") = {}
  /\ HasRow(r)
  /\ orders[po[r].order_log_id].status = "DUPLICATE_PREVENTED"
  /\ orders[po[r].order_log_id].order_id = None

C18_GateFailsOpen ==
  \A r \in Reqs :
    /\ attempt[r] \in 0..(max_retries - 1)
    /\ attempt[r] > 0 => payload[r] # NoPayload
    /\ r \in fail_open
         => /\ GateDone(r)
            /\ is_dup[r] = FALSE
            /\ pc[r] # "duplicate"
            /\ (\A q \in SamePair(r) : q \in fail_open) => KeyOf(r) \notin redis_keys

C18_Witness ==
  \E r \in Reqs :
    /\ r \in fail_open
    /\ attempt[r] = max_retries - 1
    /\ is_dup[r] = FALSE
    /\ Returned_po(r)
    /\ EventsOf(r, "kite.place_order") # {}

\* the stored rows of the pair the P&L was asked for that are SUCCESS or
\* FORWARD_TEST_SUCCESS and carry an order id
Considered ==
  {i \in 1..Len(ledger) :
     /\ ledger[i].tradingsymbol = pnl.tradingsymbol
     /\ ledger[i].exchange = pnl.exchange
     /\ ledger[i].status \in {"SUCCESS", "FORWARD_TEST_SUCCESS"}
     /\ ledger[i].order_id # None}

ConsideredRows(transaction_type) ==
  {ledger[i] : i \in {j \in Considered : ledger[j].transaction_type = transaction_type}}

RECURSIVE Quantity(_)
Quantity(rows) ==
  IF rows = {} THEN 0
  ELSE LET o == CHOOSE x \in rows : TRUE IN o.quantity + Quantity(rows \ {o})

(***************************************************************************)
(* C19: the answer of calculate_symbol_pnl(tradingsymbol, exchange) is the *)
(* answer it gives on the table reduced to the rows of that pair with      *)
(* status SUCCESS or FORWARD_TEST_SUCCESS and an order id, so rows that    *)
(* are ATTEMPTING, FAILED or DUPLICATE_PREVENTED, rows without an order id *)
(* and rows of another instrument never change it; its totals and its      *)
(* position are the sums over those rows.                                  *)
(***************************************************************************)
C19_OnlySuccessfulRowsOfThePair ==
  pnl # NoReport
    => /\ pnl = calculate_symbol_pnl(Where(ledger, Considered),
                                     pnl.tradingsymbol, pnl.exchange)
       /\ pnl.total_buy_qty = Quantity(ConsideredRows("BUY"))
       /\ pnl.total_sell_qty = Quantity(ConsideredRows("SELL"))
       /\ pnl.current_position
            = Quantity(ConsideredRows("BUY")) - Quantity(ConsideredRows("SELL"))

C19_Witness ==
  /\ pnl # NoReport
  /\ pnl.tradingsymbol = "RELIANCE" /\ pnl.exchange = "NSE"
  /\ \E i \in 1..Len(ledger) :
       ledger[i].status = "SUCCESS" /\ ledger[i].order_id = None
  /\ \E i \in 1..Len(ledger) :
       ledger[i].exchange = "BSE" /\ ledger[i].status = "SUCCESS"
  /\ pnl.total_buy_qty = 10
  /\ pnl.total_sell_qty = 8
  /\ pnl.realized_pnl = 640

\* the quantity of the rows that are older than o
Older(rows, o) == Quantity({x \in rows : x.timestamp < o.timestamp})

\* the price of the k-th unit of the rows taken oldest first
UnitPrice(rows, k) ==
  (CHOOSE o \in rows : Older(rows, o) < k /\ k <= Older(rows, o) + o.quantity).price

\* strict FIFO: the k-th unit sold closes the k-th unit bought
RECURSIVE FifoReference(_, _, _)
FifoReference(buys, sells, k) ==
  IF k = 0 THEN 0
  ELSE UnitPrice(sells, k) - UnitPrice(buys, k) + FifoReference(buys, sells, k - 1)

\* the table holds the buys (10 @ 2500), (5 @ 2520) and the sells
\* (8 @ 2580), (7 @ 2590) of the pair, in that time order, and nothing else
\* of the pair that is considered
FourTrades ==
  {[transaction_type |-> ledger[i].transaction_type,
    quantity |-> ledger[i].quantity, price |-> ledger[i].price] : i \in Considered}
    = {[transaction_type |-> "BUY", quantity |-> 10, price |-> 2500],
       [transaction_type |-> "BUY", quantity |-> 5, price |-> 2520],
       [transaction_type |-> "SELL", quantity |-> 8, price |-> 2580],
       [transaction_type |-> "SELL", quantity |-> 7, price |-> 2590]}

(***************************************************************************)
(* C20: the realized P&L of the answer is the strict-FIFO value: with the  *)
(* considered buys and sells each taken oldest first, every unit sold is   *)
(* matched with the oldest unit bought that is not yet matched and accrues *)
(* sell_price - buy_price; for buys (10 @ 2500), (5 @ 2520) and sells      *)
(* (8 @ 2580), (7 @ 2590) it is 1170, with total buy quantity 15, total    *)
(* sell quantity 15 and position 0.                                        *)
(***************************************************************************)
C20_StrictFifo ==
  pnl # NoReport
    => /\ pnl.realized_pnl
            = FifoReference(ConsideredRows("BUY"), ConsideredRows("SELL"),
                            Min(Quantity(ConsideredRows("BUY")),
                                Quantity(ConsideredRows("SELL"))))
       /\ FourTrades
            => /\ pnl.realized_pnl = 1170
               /\ pnl.total_buy_qty = 15
               /\ pnl.total_sell_qty = 15
               /\ pnl.current_position = 0

C20_Witness ==
  /\ pnl # NoReport
  /\ FourTrades
  /\ Len(ledger) = MaxRows
  /\ ledger[1].transaction_type = "SELL"
  /\ pnl.realized_pnl = 1170
  /\ pnl.current_position = 0

\* the sequences that hold the rows of a set once each
Orderings(rows) ==
  {f \in [1..Cardinality(rows) -> rows] :
     \A i, j \in 1..Cardinality(rows) : f[i] = f[j] => i = j}

(***************************************************************************)
(* C21: for considered buy and sell rows with pairwise distinct            *)
(* timestamps, _calculate_fifo_pnl returns the same realized P&L in        *)
(* whatever order the rows are passed in, which is also the realized P&L   *)
(* of the answer in whatever order the rows are stored.                    *)
(***************************************************************************)
C21_OrderOfRowsIrrelevant ==
  pnl # NoReport
    => \A buy_orders \in Orderings(ConsideredRows("BUY")) :
         \A sell_orders \in Orderings(ConsideredRows("SELL")) :
           CalculateFifoPnl(buy_orders, sell_orders).realized_pnl
             = pnl.realized_pnl

\* the rows are stored in an order in which a matching without the sort
\* gives another value
C21_Witness ==
  /\ pnl # NoReport
  /\ Cardinality(ConsideredRows("BUY")) = 2
  /\ Cardinality(ConsideredRows("SELL")) = 2
  /\ \E i, j \in Considered : i < j /\ ledger[i].timestamp > ledger[j].timestamp
  /\ \E buy_orders \in Orderings(ConsideredRows("BUY")) :
       \E sell_orders \in Orderings(ConsideredRows("SELL")) :
         CalculateFifoPnlAsPassed(buy_orders, sell_orders).realized_pnl
           # pnl.realized_pnl


\* the calendar day a candidate contract expires on, whichever way its
\* expiry is represented
ExpiryDateOf(contract) ==
  IF contract.expiry.kind = "int"
    THEN contract.expiry.v \div MsPerDay
    ELSE contract.expiry.v

\* r is a derivative-segment signal found flat on every candidate contract
FlatOnAllCandidates(r) ==
  /\ Decided(r)
  /\ payload[r].segment \in {"NFO", "MCX"}
  /\ acct[r].qty_held = 0

\* the front contract of r is within the rollover window on the day read
InRolloverWindow(r) ==
  /\ ExpiryDateOf(acct[r].contracts[1]) - acct[r].today <= 7
  /\ Weekday(acct[r].today) \in 0..4
  /\ Len(acct[r].contracts) >= 2

(***************************************************************************)
(* C22: for a derivative-segment signal found flat on all candidate        *)
(* contracts, the instrument of the open order is the second candidate     *)
(* when the front contract's days_left (expiry date minus today) is at     *)
(* most 7, today is a weekday and a second candidate exists, and the front *)
(* contract otherwise; the lot size and the order quantity are that        *)
(* contract's; every place_order call and every order sent to the broker   *)
(* for the signal is on that contract, and a buy signal calls place_order  *)
(* exactly once on it.  (A flat sell never enters place_order, see C6: the *)
(* claim is read as saying which contract the open order is for.)          *)
(***************************************************************************)
C22_RolloverAwareSelection ==
  \A r \in Reqs :
    FlatOnAllCandidates(r)
      => LET selected_contract ==
               IF InRolloverWindow(r) THEN acct[r].contracts[2]
                                      ELSE acct[r].contracts[1]
         IN /\ acct[r].tradingsymbol = selected_contract.tradingsymbol
            /\ acct[r].lot_size = selected_contract.lot_size
            /\ acct[r].total_quantity
                 = acct[r].quantity * selected_contract.lot_size
            /\ \A i \in EventsOf(r, "place_order") :
                 /\ events[r][i].a[2] = selected_contract.tradingsymbol
                 /\ events[r][i].a[6]
                      = acct[r].quantity * selected_contract.lot_size
            /\ \A i \in EventsOf(r, "kite.place_order") :
                 /\ events[r][i].a.tradingsymbol
                      = selected_contract.tradingsymbol
                 /\ events[r][i].a.quantity
                      = acct[r].quantity * selected_contract.lot_size
            /\ payload[r].action = "buy"
                 => Cardinality(EventsOf(r, "place_order")) = 1

\* days_left = 3 on a Tuesday with a second contract: the buy goes to the
\* second contract, whose lot size differs from the front contract's
C22_Witness ==
  \E r \in Reqs :
    /\ FlatOnAllCandidates(r)
    /\ payload[r].action = "buy"
    /\ Len(acct[r].contracts) >= 2
    /\ ExpiryDateOf(acct[r].contracts[1]) - acct[r].today = 3
    /\ Weekday(acct[r].today) = 1
    /\ acct[r].contracts[2].lot_size # acct[r].contracts[1].lot_size
    /\ \E i \in EventsOf(r, "kite.place_order") :
         events[r][i].a.tradingsymbol = acct[r].contracts[2].tradingsymbol
    /\ result[r].status = "buy order placed"

\* the other side of the rule: a weekend day inside the last week, and a
\* weekday outside it, both keep the front contract
C22_WitnessFront ==
  /\ \E r \in Reqs :
       /\ FlatOnAllCandidates(r)
       /\ Len(acct[r].contracts) >= 2
       /\ ExpiryDateOf(acct[r].contracts[1]) - acct[r].today <= 7
       /\ Weekday(acct[r].today) >= 5
       /\ acct[r].tradingsymbol = acct[r].contracts[1].tradingsymbol
       /\ EventsOf(r, "kite.place_order") # {}


\* in the cash-segment read of r exactly one of the two parallel calls
\* timed out and the other one returned
OneLegTimedOut(r) ==
  /\ Decided(r)
  /\ payload[r].segment = "NSE"
  /\ \/ acct[r].read_exc = <<"TimeoutError", None>>
     \/ acct[r].read_exc = <<None, "TimeoutError">>

(***************************************************************************)
(* C23 as stated: in the cash-segment read, when exactly one of the two    *)
(* parallel calls (holdings, positions) times out and the other succeeds,  *)
(* signed_quantity is what the succeeding call reports by itself; the read *)
(* is not degraded to a total failure.                                     *)
(***************************************************************************)
C23_OneLegTimeoutKeepsOtherLeg ==
  \A r \in Reqs :
    OneLegTimedOut(r) => acct[r].qty_held = acct[r].survivor_qty


\* the last broker read of r timed out or raised
ReadFailed(r) ==
  /\ Decided(r)
  /\ acct[r].read_exc # <<None, None>>

\* a leg of a read that ended with exc, or returned rows when exc is None
Leg(exc, rows) == IF exc = None THEN Returned(rows) ELSE Raised(exc)

(***************************************************************************)
(* C24 as stated: when a broker read of get_positions_and_holdings_direct  *)
(* times out or raises, no failure is propagated: the read returns         *)
(* signed_quantity = 0 with an empty raw position, whatever the other leg  *)
(* returned, and the reconciliation proceeds as in the flat state: it      *)
(* calls place_order exactly once, for an open order of the requested      *)
(* action and of requested quantity x lot_size.                            *)
(***************************************************************************)
C24_FailedReadProceedsAsFlat ==
  \A r \in Reqs :
    ReadFailed(r)
      => /\ acct[r].qty_held = 0
         /\ \A h \in HoldingsResponses(acct[r].tradingsymbol),
               p \in PositionsResponses(acct[r].tradingsymbol, payload[r].segment) :
              RawPositionDirect(payload[r].segment, acct[r].tradingsymbol,
                                Leg(acct[r].read_exc[1], h.rows),
                                Leg(acct[r].read_exc[2], p.rows)) = <<>>
         /\ CalledOnce(r, payload[r].action, acct[r].quantity * acct[r].lot_size)

\* the part of C24 that holds: after a failed read the quantity is 0, the
\* raw position is empty and the flat branch for the requested action is
\* taken; a buy calls place_order exactly once
C24_FailedReadIsFlat ==
  \A r \in Reqs :
    ReadFailed(r)
      => /\ acct[r].qty_held = 0
         /\ \A h \in HoldingsResponses(acct[r].tradingsymbol),
               p \in PositionsResponses(acct[r].tradingsymbol, payload[r].segment) :
              RawPositionDirect(payload[r].segment, acct[r].tradingsymbol,
                                Leg(acct[r].read_exc[1], h.rows),
                                Leg(acct[r].read_exc[2], p.rows)) = <<>>
         /\ acct[r].branch
              = (IF payload[r].action = "buy" THEN "buy" ELSE "short")
         /\ payload[r].action = "buy"
              => CalledOnce(r, "buy", acct[r].quantity * acct[r].lot_size)


\* the scheduler run has ended, outside the "skipped" case of a failed
\* positions read
RunEnded == rollover.outcome \in {"completed", "NameError"}

\* the positions of the last run that are held NRML long futures positions
\* on the front contract of their underlying, with a next contract, whose
\* days_left is at most 7: the instrument list of the segment is the one in
\* the instrument cache, which the run could read
DuePositions ==
  {i \in 1..Len(rollover.positions) :
     LET pos == rollover.positions[i]
     IN /\ pos.exchange \in {"NFO", "MCX"}
        /\ pos.product = "NRML"
        /\ pos.quantity > 0
        /\ instrument_cache[pos.exchange].set
        /\ \E k \in 1..Len(rollover.tracked_base_symbols) :
             rollover.tracked_base_symbols[k]
               = LookupName(instrument_cache[pos.exchange].df, pos.tradingsymbol)
        /\ LET df == instrument_cache[pos.exchange].df
               contracts == ContractsFromDf(
                              df, LookupName(df, pos.tradingsymbol) \o <<"!">>)
           IN /\ Len(contracts) >= 2
              /\ contracts[1].tradingsymbol = pos.tradingsymbol
              /\ ExpiryDateOf(contracts[1]) - rollover.today <= 7
              /\ Weekday(rollover.today) \in 0..4}

\* the contract after the front one of the underlying of position i
NextContractOf(i) ==
  LET pos == rollover.positions[i]
      df == instrument_cache[pos.exchange].df
  IN ContractsFromDf(df, LookupName(df, pos.tradingsymbol) \o <<"!">>)[2]

(***************************************************************************)
(* C25 as stated: in each scheduler run, for every held NRML long futures  *)
(* position whose held (front) contract has days_left <= 7 on a weekday    *)
(* and for which a next contract exists, the scheduler has submitted a     *)
(* market SELL of the held contract and a market BUY of the next contract, *)
(* both for the held quantity, the SELL before the BUY.                    *)
(***************************************************************************)
C25_RolloverSellsThenBuys ==
  RunEnded
    => \A i \in DuePositions :
         \E s \in 1..Len(rollover.placed), b \in 1..Len(rollover.placed) :
           /\ s < b
           /\ rollover.placed[s]
                = [tradingsymbol |-> rollover.positions[i].tradingsymbol,
                   action |-> "sell", price |-> 0,
                   segment |-> rollover.positions[i].exchange,
                   quantity |-> rollover.positions[i].quantity]
           /\ rollover.placed[b]
                = [tradingsymbol |-> NextContractOf(i).tradingsymbol,
                   action |-> "buy", price |-> 0,
                   segment |-> rollover.positions[i].exchange,
                   quantity |-> rollover.positions[i].quantity]

\* what the scheduler does: the run that finds a position due submits
\* nothing and ends with NameError; a run that finds none completes
C25_DueRunEndsInNameError ==
  /\ rollover.placed = <<>>
  /\ (RunEnded /\ rollover.due # <<>>) => rollover.outcome = "NameError"
  /\ (RunEnded /\ rollover.due = <<>>) => rollover.outcome = "completed"


\* r is a sell signal for a cash symbol read with no holdings and no
\* positions
FlatCashSell(r) ==
  /\ Decided(r)
  /\ payload[r].action = "sell"
  /\ payload[r].segment = "NSE"
  /\ acct[r].qty_held = 0

MatchingFutures ==
  {i \in 1..Len(resolved.df) :
     /\ resolved.df[i].instrument_type = "FUT"
     /\ resolved.df[i].name = UpperStr(NormalizeSymbol(resolved.tv_symbol))}

\* the contracts returned are the matching futures nearest expiry first, at
\* most three of them, none left out that expires earlier than one returned
NearestFirstTopThree ==
  LET contracts == resolved.contracts
  IN /\ Len(contracts) = Min(3, Cardinality(MatchingFutures))
     /\ \A k \in 1..Len(contracts) :
          /\ \E i \in MatchingFutures :
               /\ resolved.df[i].tradingsymbol = contracts[k].tradingsymbol
               /\ resolved.df[i].expiry = contracts[k].expiry
               /\ resolved.df[i].lot_size = contracts[k].lot_size
     /\ \A k, l \in 1..Len(contracts) :
          k < l => /\ ExpiryDateOf(contracts[k]) < ExpiryDateOf(contracts[l])
                   /\ contracts[k].tradingsymbol # contracts[l].tradingsymbol
     /\ \A i \in MatchingFutures :
          \/ \E k \in 1..Len(contracts) :
               contracts[k].tradingsymbol = resolved.df[i].tradingsymbol
          \/ \A k \in 1..Len(contracts) :
               ExpiryDateOf(contracts[k]) <= ExpiryDateOf(resolved.df[i])

(***************************************************************************)
(* C27: a call of contract resolution for a segment whose instrument cache *)
(* misses (the key is not set, or the store gave no answer) calls the      *)
(* broker's instrument listing exactly once, and when the listing is       *)
(* returned and the store takes the write, the cache entry of the segment  *)
(* holds that listing; a call that hits the cache never calls the listing  *)
(* and leaves the entry as it was.  In both cases the call returns the     *)
(* futures of the underlying found in the listing it worked on, nearest    *)
(* expiry first, at most three.                                            *)
(***************************************************************************)
C27_ListingOnceOnMissNeverOnHit ==
  resolved # NoCall
    => /\ resolved.hit => /\ resolved.instruments_calls = 0
                          /\ resolved.entry.set
                          /\ resolved.entry.df = resolved.df
       /\ ~resolved.hit => resolved.instruments_calls = 1
       /\ resolved.stored
            => /\ resolved.entry.set
               /\ resolved.entry.df
                    = [i \in 1..Len(resolved.df) |-> JsonRoundTrip(resolved.df[i])]
       /\ (resolved.hit \/ resolved.listed) => NearestFirstTopThree

\* a miss that fetched a listing of four futures of the underlying, out of
\* expiry order, and stored it
C27_Witness ==
  /\ ~resolved.hit
  /\ resolved.stored
  /\ resolved.instruments_calls = 1
  /\ Cardinality(MatchingFutures) > 3
  /\ Len(resolved.contracts) = 3
  /\ resolved.contracts[1].tradingsymbol = NF_A
  /\ resolved.df[1].tradingsymbol # NF_A

\* a hit on the stored listing: no call, the same three contracts
C27_WitnessHit ==
  /\ resolved.hit
  /\ resolved.instruments_calls = 0
  /\ Len(resolved.contracts) = 3
  /\ resolved.contracts[1].tradingsymbol = NF_A
  /\ resolved.contracts[1].expiry.kind = "int"


\* r was rejected by the validation of the webhook: wrong token, absent
\* time, or an action other than buy and sell
FailedValidation(r) == pc[r] \in {"unauthorized", "no_timestamp", "invalid_action"}

\* r never reached the core: is_duplicate was not called for it, so no key
\* was set for it; no broker or ledger operation, no row
LeftNoTrace(r) ==
  /\ attempt[r] = 0
  /\ r \notin fail_open
  /\ payload[r] # NoPayload => KeyOf(r) \notin redis_keys \cup expired
  /\ NoSubmission(r)
  /\ acct[r] = NoAcct

(***************************************************************************)
(* C28 as stated: a signal that fails validation (wrong token, absent      *)
(* time, or an action other than buy/sell) is rejected before the core: it *)
(* sets no idempotency key, makes no broker call and writes no             *)
(* OrderAttempt row.                                                       *)
(***************************************************************************)
C28_RejectedBeforeCore ==
  \A r \in Reqs : FailedValidation(r) => LeftNoTrace(r)

\* the part of C28 that holds: a wrong token and an absent time are
\* rejected before the gate; an invalid action is rejected after the gate,
\* before any broker call and any row
C28_TokenAndTimeRejectedBeforeCore ==
  \A r \in Reqs :
    /\ pc[r] \in {"unauthorized", "no_timestamp"} => LeftNoTrace(r)
    /\ pc[r] = "invalid_action"
         => /\ NoSubmission(r)
            /\ acct[r] = NoAcct
            /\ is_dup[r] = FALSE
            /\ r \notin fail_open => KeyOf(r) \in redis_keys \cup expired


\* r is a derivative-segment signal that found a position on a candidate
FoundOnCandidate(r) ==
  /\ Decided(r)
  /\ payload[r].segment \in {"NFO", "MCX"}
  /\ acct[r].qty_held # 0

(***************************************************************************)
(* C29: for a derivative-segment cover or close, the candidates are at     *)
(* most three, in ascending expiry; the instrument traded is the first of  *)
(* them whose position read is non-zero: every candidate before it was     *)
(* read as zero, it is the last one read (the scan stops there), its       *)
(* position is the signed quantity, its lot size is the lot size in use,   *)
(* and every place_order call and every broker order of the signal is on   *)
(* it; a close calls place_order exactly once, for that position's         *)
(* quantity.  (A cover never enters place_order, see C7: the claim is read *)
(* as saying which contract the order is for.)                             *)
(***************************************************************************)
C29_FirstNonZeroCandidate ==
  \A r \in Reqs :
    FoundOnCandidate(r)
      => LET contracts == acct[r].contracts
             scanned == acct[r].scanned
             n == Len(scanned)
         IN /\ Len(contracts) \in 1..3
            /\ \A k, l \in 1..Len(contracts) :
                 k < l => ExpiryDateOf(contracts[k]) < ExpiryDateOf(contracts[l])
            /\ n \in 1..Len(contracts)
            /\ \A k \in 1..(n - 1) : scanned[k] = 0
            /\ scanned[n] # 0
            /\ acct[r].qty_held = scanned[n]
            /\ acct[r].tradingsymbol = contracts[n].tradingsymbol
            /\ acct[r].lot_size = contracts[n].lot_size
            /\ \A i \in EventsOf(r, "place_order") :
                 /\ events[r][i].a[2] = contracts[n].tradingsymbol
                 /\ events[r][i].a[6] = scanned[n]
            /\ \A i \in EventsOf(r, "kite.place_order") :
                 /\ events[r][i].a.tradingsymbol = contracts[n].tradingsymbol
                 /\ events[r][i].a.quantity = scanned[n]
            /\ payload[r].action = "sell" /\ scanned[n] > 0
                 => Cardinality(EventsOf(r, "place_order")) = 1

\* a long position found on the second of three candidates, with another
\* lot size than the front one: the close is sent for it and the third
\* candidate was not read
C29_Witness ==
  \E r \in Reqs :
    /\ FoundOnCandidate(r)
    /\ payload[r].action = "sell"
    /\ Len(acct[r].contracts) = 3
    /\ acct[r].scanned = <<0, MaxHeld>>
    /\ acct[r].lot_size # acct[r].contracts[1].lot_size
    /\ \E i \in EventsOf(r, "kite.place_order") :
         events[r][i].a.tradingsymbol = acct[r].contracts[2].tradingsymbol
    /\ result[r].status = "sell order placed"


\* the product the specification gives an order of r: NRML for the
\* derivative segments, MIS for a cash short-open or short-cover, CNC for a
\* cash long open or close
ProductFor(r) ==
  IF payload[r].segment \in {"NFO", "MCX"} THEN "NRML"
  ELSE IF acct[r].branch \in {"short", "cover"} THEN "MIS"
  ELSE "CNC"

\* the product of the row of r and of every order r sent to the broker
ProductsAre(r, product) ==
  /\ po[r].order_log_id # NoId => orders[po[r].order_log_id].product = product
  /\ \A i \in EventsOf(r, "kite.place_order") : events[r][i].a.product = product

(***************************************************************************)
(* C30 as stated: for every derivative-segment order (NFO and MCX) both    *)
(* the ledger row and the broker order use the product NRML; for every     *)
(* cash-segment long open or close both use CNC; cash short-opens and      *)
(* short-covers use MIS in both.                                           *)
(***************************************************************************)
C30_ProductTypes ==
  \A r \in Reqs :
    (Decided(r) /\ acct[r].branch # None) => ProductsAre(r, ProductFor(r))

\* the part of C30 that holds: NFO orders are NRML and cash long opens and
\* closes are CNC, in the row and at the broker alike; an MCX order is NRML
\* in the row and CNC at the broker
C30_ProductsInTheCode ==
  \A r \in Reqs :
    /\ (Decided(r) /\ payload[r].segment = "NFO") => ProductsAre(r, "NRML")
    /\ (Decided(r) /\ payload[r].segment = "NSE") => ProductsAre(r, "CNC")
    /\ (Decided(r) /\ payload[r].segment = "MCX")
         => /\ po[r].order_log_id # NoId
                 => orders[po[r].order_log_id].product = "NRML"
            /\ \A i \in EventsOf(r, "kite.place_order") :
                 events[r][i].a.product = "CNC"
    /\ (Decided(r) /\ acct[r].branch \in {"short", "cover"})
         => EventsOf(r, "place_order") = {}

\* an MCX order whose row says NRML while the broker was sent CNC
C30_Mismatch ==
  \E r \in Reqs :
    /\ payload[r].segment = "MCX"
    /\ po[r].order_log_id # NoId
    /\ orders[po[r].order_log_id].product = "NRML"
    /\ \E i \in EventsOf(r, "kite.place_order") : events[r][i].a.product = "CNC"

\* the open-order query of the duplicate check of r raised
CheckFailed(r) == po[r].order_details = ErrorCheckingOrders

\* the primary market order of r has gone to the broker
MarketOrderSent(r) ==
  \E i \in EventsOf(r, "kite.place_order") :
    /\ events[r][i].a = OrderParams(po[r])
    /\ \A j \in EventsOf(r, "kite.place_order") : i <= j
    /\ \E k \in EventsOf(r, "kite.orders") : k < i

(***************************************************************************)
(* C31: when the broker's open-order query raises inside the duplicate     *)
(* check, the check reports no duplicate: place_order goes on to the       *)
(* primary market order (it is the next broker call, and once place_order  *)
(* has returned it has been sent), and the row is never marked             *)
(* DUPLICATE_PREVENTED.                                                    *)
(***************************************************************************)
C31_CheckFailureFailsOpen ==
  \A r \in Reqs :
    CheckFailed(r) =>
      /\ pc[r] \in {"po_market", "po_retry", "responded"}
      /\ pc[r] # "po_market" => MarketOrderSent(r)
      /\ pc[r] = "po_market" => EventsOf(r, "kite.place_order") = {}
      /\ \A i \in EventsOf(r, "update_order_result") :
           events[r][i].a # "DUPLICATE_PREVENTED"
      /\ po[r].order_log_id # NoId =>
           orders[po[r].order_log_id].status # "DUPLICATE_PREVENTED"

C31_Witness ==
  \E r \in Reqs :
    /\ CheckFailed(r)
    /\ pc[r] = "responded"
    /\ MarketOrderSent(r)
    /\ HasRow(r)
    /\ orders[po[r].order_log_id].status = "SUCCESS"

\* the place_order calls of the last run for a contract and a side
LegsOf(tradingsymbol, action) ==
  {k \in 1..Len(rollover.placed) :
     /\ rollover.placed[k].tradingsymbol = tradingsymbol
     /\ rollover.placed[k].action = action}

(***************************************************************************)
(* C32 as stated: in a rollover both legs are attempted; the close (SELL)  *)
(* leg of every position that is due is attempted, the open (BUY) leg of   *)
(* the next contract is attempted at most once in the run (a failed BUY is *)
(* not retried), and the outcome of the legs is what the run logs: the run *)
(* does not end in an error of its own.                                    *)
(***************************************************************************)
C32_BothLegsAttemptedNoRetry ==
  RunEnded
    => \A i \in DuePositions :
         /\ Cardinality(LegsOf(rollover.positions[i].tradingsymbol, "sell")) = 1
         /\ Cardinality(LegsOf(NextContractOf(i).tradingsymbol, "buy")) <= 1
         /\ rollover.outcome = "completed"

\* what the scheduler does with a position that is due: no leg is attempted,
\* so no leg can fail and nothing is logged as a partial rollover; the
\* position stays as it was read
C32_NoLegAttempted ==
  (RunEnded /\ rollover.due # <<>>)
    => /\ rollover.placed = <<>>
       /\ rollover.outcome = "NameError"
       /\ \A k \in 1..Len(rollover.due) :
            /\ rollover.due[k].qty_held > 0
            /\ LegsOf(rollover.due[k].current_symbol, "sell") = {}
            /\ LegsOf(rollover.due[k].next_symbol, "buy") = {}

\* the task of rollover_check is inside its loop
InTheLoop == scheduler.pc \in {"top", "sleeping", "except"}

\* the task waits for the next scheduled wake time
Waiting == scheduler.pc = "sleeping"

(***************************************************************************)
(* C33 as stated: after any exception raised inside an iteration, a failed *)
(* positions read included, the loop sleeps the fixed interval before it   *)
(* starts the next iteration.                                              *)
(***************************************************************************)
C33_EveryExceptionSleepsFixedInterval ==
  (scheduler.raised # None /\ scheduler.pc \in {"top", "sleeping"})
    => scheduler.slept = RetrySleep

(***************************************************************************)
(* C33, amended: the loop of the rollover scheduler never ends because of  *)
(* an error, and from every reachable state it eventually returns to       *)
(* waiting for the next scheduled wake time.  An exception that reaches    *)
(* the handler of the outer try is followed by the fixed sleep of 60       *)
(* seconds and a new iteration; a failed positions read is handled inside  *)
(* the iteration, which is skipped with no fixed sleep.                    *)
(***************************************************************************)
C33_LoopNeverEndsOnError ==
  /\ []InTheLoop
  /\ []<>Waiting
  /\ []((scheduler.raised = "NameError" /\ scheduler.pc \in {"top", "sleeping"})
          => scheduler.slept = RetrySleep)
  /\ [](scheduler.raised = "positions"
          => scheduler.slept = 0 /\ scheduler.pc \in {"top", "sleeping"})

C33_Witness ==
  /\ Waiting
  /\ scheduler.raised = "NameError"
  /\ scheduler.slept = RetrySleep
  /\ rollover.outcome = "NameError"
  /\ Earlier(PlusSeconds(DateTime(rollover.today, RunSecond, 0), RetrySleep - 1),
             scheduler.now)

C33_WitnessSkipped ==
  /\ Waiting
  /\ scheduler.raised = "positions"
  /\ scheduler.slept = 0
  /\ rollover.outcome = "skipped"

\* 09:25:00 of a day
RunTime(day) == DateTime(day, RunSecond, 0)

(***************************************************************************)
(* C34: for every reading now of the clock, the wake time the scheduler    *)
(* computes is strictly later than now, is at 09:25:00, falls on a weekday *)
(* (Monday to Friday), and is the earliest instant with these properties.  *)
(***************************************************************************)
C34_NextWeekdayRunTime ==
  Waiting =>
    LET now == scheduler.now
        next_run == scheduler.next_run
    IN /\ Earlier(now, next_run)
       /\ next_run = RunTime(next_run.day)
       /\ Weekday(next_run.day) \in 0..4
       /\ \A day \in 0..next_run.day :
            (Weekday(day) \in 0..4 /\ Earlier(now, RunTime(day)))
              => ~Earlier(RunTime(day), next_run)

\* Friday 1970-01-02 09:25:00 sharp: the next wake time is Monday 09:25
C34_Witness ==
  /\ Waiting
  /\ scheduler.now = RunTime(1)
  /\ scheduler.next_run = RunTime(4)

\* Saturday, before 09:25: the wake time skips the weekend
C34_WitnessWeekend ==
  /\ Waiting
  /\ scheduler.now = DateTime(2, RunSecond - 1, 999999)
  /\ scheduler.next_run = RunTime(4)

\* the handler of r has got past the check of the action: the signal is
\* being processed or has been
Processing(r) ==
  pc[r] \in {"scan", "read", "po_log", "po_forward", "po_check", "po_market",
             "po_retry", "responded"}

(***************************************************************************)
(* C35: the request cache is cleared once at the start of the processing   *)
(* of each admitted signal; one signal's processing resolves the contract  *)
(* list of its (symbol, segment) at most once; and the list a signal works *)
(* with is never one that the processing of another signal cached: its     *)
(* lookup is never a hit, it is resolved by the signal itself, in every    *)
(* interleaving of the signals.  The cache holds at most the entry of the  *)
(* signal that cleared it last.                                            *)
(***************************************************************************)
C35_RequestCacheIsPerSignal ==
  /\ \A r \in Reqs :
       /\ acct[r].cleared = (IF Processing(r) THEN 1 ELSE 0)
       /\ acct[r].resolutions <= 1
       /\ ~acct[r].contract_hit
       /\ (Processing(r) /\ payload[r].segment \in {"NFO", "MCX"})
            => acct[r].resolutions = 1
  /\ \A k \in DOMAIN contract_cache :
       \E r \in Reqs :
         /\ Processing(r)
         /\ k = CacheKey(payload[r].symbol, payload[r].segment)
         /\ contract_cache[k] = acct[r].contracts \/ pc[r] = "responded"
  /\ Cardinality(DOMAIN contract_cache) <= 1

\* two signals of the same symbol and segment are suspended at their
\* position reads at once, each with the list it resolved itself, the two
\* lists being different
C35_Witness ==
  /\ pc[1] = "scan" /\ pc[2] = "scan"
  /\ CacheKey(payload[1].symbol, payload[1].segment)
       = CacheKey(payload[2].symbol, payload[2].segment)
  /\ acct[1].contracts # acct[2].contracts
  /\ acct[1].resolutions = 1 /\ acct[2].resolutions = 1
  /\ contract_cache[CacheKey(payload[2].symbol, payload[2].segment)]
       = acct[2].contracts

\* r is a futures signal that read every candidate flat
FlatFutures(r) ==
  /\ Decided(r)
  /\ payload[r].segment \in {"NFO", "MCX"}
  /\ acct[r].qty_held = 0

(***************************************************************************)
(* C36: for NFO and MCX the requested quantity is 1 whatever the payload   *)
(* asks for, so that when all candidates are flat the quantity to open is  *)
(* exactly 1 x lot_size of the selected contract, lot_size >= 1: that is   *)
(* the quantity of the place_order call, of every order sent to the broker *)
(* and of the ledger row.  For the cash segment the requested quantity is  *)
(* the payload's, and 1 when the payload's is absent or zero.              *)
(***************************************************************************)
C36_FuturesQuantityIsOneLot ==
  \A r \in Reqs :
    /\ Processing(r) =>
         acct[r].quantity =
           (IF payload[r].segment \in {"NFO", "MCX"} THEN 1
            ELSE IF payload[r].quantity = 0 THEN 1 ELSE payload[r].quantity)
    /\ FlatFutures(r) =>
         /\ OnResolvedInstrument(r)
         /\ acct[r].lot_size >= 1
         /\ acct[r].total_quantity = 1 * acct[r].lot_size
         /\ acct[r].total_quantity % acct[r].lot_size = 0
         /\ \A i \in EventsOf(r, "place_order") :
              events[r][i].a[6] = acct[r].lot_size
         /\ \A i \in EventsOf(r, "kite.place_order") :
              events[r][i].a.quantity = acct[r].lot_size
         /\ po[r].order_log_id # NoId
              => orders[po[r].order_log_id].quantity = acct[r].lot_size

\* a buy of NF1! asking for 2, flat in the rollover window: one lot of
\* the second contract, whose lot size is 3, is ordered
C36_Witness ==
  \E r \in Reqs :
    /\ FlatFutures(r)
    /\ payload[r].quantity = MaxQuantity
    /\ acct[r].lot_size = 3
    /\ pc[r] = "responded"
    /\ po[r].ret[1] = "ORD"
    /\ \E i \in EventsOf(r, "kite.place_order") : events[r][i].a.quantity = 3
    /\ HasRow(r)

\* a cash signal without a quantity is processed with quantity 1
C36_WitnessCash ==
  \E r \in Reqs :
    /\ Decided(r)
    /\ payload[r].segment = "NSE"
    /\ payload[r].quantity = 0
    /\ acct[r].quantity = 1
    /\ \E i \in EventsOf(r, "kite.place_order") : events[r][i].a.quantity = 1

\* the gate admitted r by setting the key of its pair
AdmittedBySet(r) ==
  /\ GateDone(r)
  /\ pc[r] # "duplicate"
  /\ r \notin fail_open

\* the ways the handling of an admitted signal may have ended
Endings ==
  {"buy order placed", "sell order placed", "buy order failed",
   "sell order failed", "already holding, buy skipped",
   "already short, sell skipped", "error"}

(***************************************************************************)
(* C37: with the idempotency store answering, once the gate has admitted a *)
(* signal of a (symbol, signal_time) pair by setting its key, and until    *)
(* the key expires after 24h, the key stays set, whatever the handling of  *)
(* the admitted signal does and however it ends, and every other signal of *)
(* the pair that the store has answered is a duplicate: it is never        *)
(* processed, enters place_order never and writes no row.                  *)
(***************************************************************************)
C37_AdmittedPairStaysClosed ==
  \A r \in Submitted :
    (AdmittedBySet(r) /\ KeyOf(r) \notin expired)
      => /\ KeyOf(r) \in redis_keys
         /\ pc[r] = "responded" => result[r].status \in Endings
         /\ \A q \in SamePair(r) \ {r} :
              (GateDone(q) /\ q \notin fail_open)
                => /\ pc[q] = "duplicate"
                   /\ NoSubmission(q)
                   /\ acct[q] = NoAcct

\* the admitted signal ended with a FAILED row and the signal sent again is
\* a duplicate
C37_Witness ==
  \E r \in Submitted, q \in Submitted :
    /\ r # q
    /\ q \in SamePair(r)
    /\ AdmittedBySet(r)
    /\ pc[r] = "responded"
    /\ result[r].status = "buy order failed"
    /\ HasRow(r)
    /\ orders[po[r].order_log_id].status = "FAILED"
    /\ pc[q] = "duplicate"
    /\ KeyOf(r) \in redis_keys

\* the same after a refused duplicate order, an internal error and a no-op
C37_WitnessOtherEndings ==
  \E r \in Submitted, q \in Submitted :
    /\ r # q
    /\ q \in SamePair(r)
    /\ AdmittedBySet(r)
    /\ pc[r] = "responded"
    /\ \/ HasRow(r) /\ orders[po[r].order_log_id].status = "DUPLICATE_PREVENTED"
       \/ result[r].status = "error"
       \/ result[r].status = "already holding, buy skipped"
    /\ pc[q] = "duplicate"

FinalStatuses == {"SUCCESS", "FORWARD_TEST_SUCCESS", "DUPLICATE_PREVENTED"}

\* in the history of every submission an update to SUCCESS,
\* FORWARD_TEST_SUCCESS or DUPLICATE_PREVENTED is the last thing place_order
\* did, and no update sets ATTEMPTING
FinalUpdateIsLast ==
  \A r \in Reqs :
    \A i \in EventsOf(r, "update_order_result") :
      /\ events[r][i].a # "ATTEMPTING"
      /\ events[r][i].a \in FinalStatuses => i = Len(events[r])

\* what one step does to the rows of the ledger
RowsStep ==
  \A id \in 1..Len(orders) :
    /\ id <= Len(orders')
    /\ orders[id].status \in FinalStatuses
         => /\ orders'[id].status = orders[id].status
            /\ orders'[id].order_id = orders[id].order_id
    /\ orders[id].status # "ATTEMPTING" => orders'[id].status # "ATTEMPTING"

(***************************************************************************)
(* C38: once a row of the ledger has been updated to SUCCESS,              *)
(* FORWARD_TEST_SUCCESS or DUPLICATE_PREVENTED no later step of any        *)
(* place_order changes its status or its order id (a SUCCESS row is never  *)
(* overwritten with FAILED): such an update is the last thing its          *)
(* place_order does.  No row that has left ATTEMPTING returns to it.       *)
(***************************************************************************)
C38_LedgerStatusMonotonic == []FinalUpdateIsLast /\ [][RowsStep]_vars

\* one submission ended SUCCESS and its row is still SUCCESS after another
\* submission has ended FAILED
C38_Witness ==
  \E r \in Reqs, q \in Reqs :
    /\ r < q
    /\ pc[r] = "responded" /\ pc[q] = "responded"
    /\ HasRow(r) /\ HasRow(q)
    /\ po[r].order_log_id # po[q].order_log_id
    /\ orders[po[r].order_log_id].status = "SUCCESS"
    /\ orders[po[r].order_log_id].order_id = po[r].ret[1]
    /\ orders[po[q].order_log_id].status = "FAILED"
    /\ Cardinality(EventsOf(q, "update_order_result")) = 2

\* r is a cash signal handled in live mode whose holdings and positions
\* reads both succeeded
CashReconciled(r) ==
  /\ pc[r] = "responded"
  /\ ~FORWARD_TESTING_MODE
  /\ payload[r].segment = "NSE"
  /\ acct[r].tradingsymbol # <<>>
  /\ acct[r].read_exc = <<None, None>>

\* place_order was entered for r and returned no order id: the broker
\* rejected the order or a pending duplicate stopped it
Refused_po(r) == EventsOf(r, "place_order") # {} /\ po[r].ret[1] = None

\* the quantity the order of r adds to the position when it fills fully
Filled(r) ==
  IF EventsOf(r, "place_order") = {} \/ po[r].ret[1] = None THEN 0
  ELSE IF po[r].action = "buy" THEN po[r].quantity
  ELSE 0 - po[r].quantity

\* the position after the reconciliation of r, the position before it being
\* the one it read
PositionAfter(r) == acct[r].qty_held + Filled(r)

(***************************************************************************)
(* C39 as stated: a reconciliation of a cash signal whose reads succeeded  *)
(* and whose order, if any, is accepted and fills fully never flips the    *)
(* sign of the position: a sell processed while long and a buy processed   *)
(* while short each leave the position exactly 0, and the position becomes *)
(* non-zero only from the flat state.                                      *)
(***************************************************************************)
C39_ClosesToZeroNeverFlips ==
  \A r \in Reqs :
    (CashReconciled(r) /\ ~Refused_po(r))
      => /\ acct[r].qty_held > 0 => PositionAfter(r) >= 0
         /\ acct[r].qty_held < 0 => PositionAfter(r) <= 0
         /\ (payload[r].action = "sell" /\ acct[r].qty_held > 0)
              => PositionAfter(r) = 0
         /\ (payload[r].action = "buy" /\ acct[r].qty_held < 0)
              => PositionAfter(r) = 0
         /\ (PositionAfter(r) # 0 /\ PositionAfter(r) # acct[r].qty_held)
              => acct[r].qty_held = 0

\* what the reconciliation does: it never flips the sign, a sell while long
\* leaves exactly 0, a long position is entered from flat only; a buy while
\* short and a sell while flat place no order and leave the position as it
\* was read
C39_NeverFlipsShortNeverCovered ==
  \A r \in Reqs :
    (CashReconciled(r) /\ ~Refused_po(r))
      => /\ acct[r].qty_held > 0 => PositionAfter(r) >= 0
         /\ acct[r].qty_held < 0 => PositionAfter(r) = acct[r].qty_held
         /\ (payload[r].action = "sell" /\ acct[r].qty_held > 0)
              => PositionAfter(r) = 0
         /\ (payload[r].action = "sell" /\ acct[r].qty_held = 0)
              => PositionAfter(r) = 0 /\ result[r].status = "error"
         /\ (PositionAfter(r) # acct[r].qty_held /\ PositionAfter(r) # 0)
              => acct[r].qty_held = 0 /\ payload[r].action = "buy"

\* the list of the call had at least one buy and one sell row
FifoLooped == fifo.pc # "idle" /\ fifo.buy_queue # <<>> /\ fifo.sell_queue # <<>>

\* a step of the loop moves no index back and moves at least one on by one
FifoAdvances ==
  (fifo.pc = "while" /\ fifo'.pc = "while")
    => /\ fifo'.buy_idx \in {fifo.buy_idx, fifo.buy_idx + 1}
       /\ fifo'.sell_idx \in {fifo.sell_idx, fifo.sell_idx + 1}
       /\ fifo'.buy_idx + fifo'.sell_idx > fifo.buy_idx + fifo.sell_idx

\* the loop has ended with one side exhausted and no index past its list
FifoEndsExhausted ==
  (fifo.pc = "returned" /\ FifoLooped)
    => /\ fifo.buy_idx = Len(fifo.buy_queue) \/ fifo.sell_idx = Len(fifo.sell_queue)
       /\ fifo.buy_idx <= Len(fifo.buy_queue)
       /\ fifo.sell_idx <= Len(fifo.sell_queue)

(***************************************************************************)
(* C40: the matching loop of _calculate_fifo_pnl terminates for every      *)
(* list of buy and sell rows with whole quantities, rows of quantity 0     *)
(* included: every iteration advances the buy index or the sell index, and *)
(* the loop ends when one side is exhausted.                               *)
(***************************************************************************)
C40_FifoLoopTerminates ==
  /\ [][FifoAdvances]_vars
  /\ []FifoEndsExhausted
  /\ (fifo.pc = "while") ~> (fifo.pc = "returned")

\* a call with a row of quantity 0 on each side has run its loop to the end
C40_Witness ==
  /\ fifo.pc = "returned"
  /\ FifoLooped
  /\ \E i \in 1..Len(fifo.buy_queue) : fifo.buy_queue[i].quantity = 0
  /\ Len(fifo.sell_queue) = MaxFifoLen
  /\ fifo.sell_idx > 0
  /\ fifo.buy_idx > 0

\* a call with a negative quantity has run its loop to the end
C40_WitnessNegative ==
  /\ fifo.pc = "returned"
  /\ FifoLooped
  /\ \E i \in 1..Len(fifo.buy_queue) : fifo.buy_queue[i].quantity < 0
  /\ fifo.realized_pnl # 0

====
